---------------------------- MODULE Spec2Model ----------------------------
(***************************************************************************)
(* A model of the React DevTools MCP server's correlation engine:          *)
(*   - ReactSession.ensureBackendInjected, attach, takeSnapshot and        *)
(*     getComponentMap                          (src/src/ReactSession.ts)  *)
(*   - the tool get_react_component_from_backend_node_id                   *)
(*                                              (src/src/McpResponse.ts)   *)
(*   - Mutex.acquire and registerTool           (src/unnamed/part_002)     *)
(*                                                                         *)
(* The controller talks to the page through asynchronous calls; every      *)
(* await of the code is one action, and every such call may be rejected    *)
(* by the transport (the parameter ok of the actions). The page changes    *)
(* on its own between two awaits: React starts, commits, the document      *)
(* paints, the page navigates.                                             *)
(***************************************************************************)
EXTENDS Integers, Sequences, FiniteSets, TLC

(***************************************************************************)
(* Bounds of the model.                                                    *)
(***************************************************************************)
\* tool invocations in one behaviour of the session specifications
MaxCalls == 2
\* navigations / reloads made by the page or its user, not by the server
MaxNav == 1
\* host fibers between an element and its nearest authored component
MaxHostRun == 21
\* authored components above the nearest one
MaxAuthored == 12
\* tool requests that arrive concurrently
NumRequests == 3
\* awaits inside one tool handler
HandlerSteps == 2
\* host elements nested in each other on the pages of the tool sessions
MaxSessionHostRun == 2
\* authored components on the pages of the tool sessions
MaxSessionAuthored == 1
\* getComponentMap invocations in one behaviour
MaxMapCalls == 1
\* the fibers, roots included, of the trees the walk is checked on
MaxWalkFibers == 5
\* the roots committed on the page the walk is checked on
MaxWalkRoots == 2
\* getComponentMap calls in a row on a page that stays as it is
MaxRepeatCalls == 2
\* the objects of the page that safeSerialize is checked on
MaxHeap == 2
\* the short chains of host elements both resolvers are applied to
MaxEquivHostRun == 3
\* the fibers of a graph with cycles, its root not counted
MaxCycleFibers == 2
\* the calls the stack holds before the engine gives up
MaxStack == 8
\* the children an array holds before the engine gives up
MaxCollected == 4
\* the fibers of a graph whose return links form cycles
MaxClimbFibers == 3
\* the nodes of an accessibility tree, its root included
MaxAxNodes == 4
\* the times the bootstrap patch is evaluated in one document
MaxPatches == 2

(***************************************************************************)
(* Constants of the program.                                               *)
(***************************************************************************)
\* McpResponse.ts:941 - let maxSteps = 20
MaxSteps == 20
\* McpResponse.ts:1022 - let maxOwners = 10
MaxOwners == 10

VARIABLES
    \* ---- the page (browser side) ----
    gen,             \* page-load generation of the current document
    hook,            \* __REACT_DEVTOOLS_GLOBAL_HOOK__ exists in the document
    renderers,       \* keys of hook.renderers
    fiberRoots,      \* renderer ids that have a committed root in the hook
    reactLoaded,     \* React has initialised in the current document
    rendered,        \* React has committed its tree in the current document
    painted,         \* the document has an accessibility tree
    marks,           \* the markers the tagging pass has set, per element
    cspBypass,       \* Page.setBypassCSP(true) has been applied
    preloadScripts,  \* number of evaluateOnNewDocument registrations
    reactPresent,    \* the page ships the React runtime
    navs,            \* navigations made by the page itself so far
    \* ---- the content the page renders ----
    fibers,          \* the fibers: tag, links and names of each
    dom,             \* the elements: the fiber its __reactFiber key holds
    ax,              \* the accessibility nodes the platform reports
    heap,            \* the objects that props and state of the page hold
    hookObj,         \* the registration hook of the page, field by field
    \* ---- the session (controller side) ----
    backendInjected, \* ReactSession.#backendInjected
    tool,            \* the tool invocation in progress, "none" when idle
    pc,              \* the await the invocation is suspended at
    steps,           \* steps ensureBackendInjected has run in this invocation
    attachResult,    \* what attach() produced in this invocation
    calls,           \* tool invocations started so far
    startGen,        \* the page-load generation when the invocation started
    log,             \* one record per finished tool invocation
    \* ---- arguments and results of the tools ----
    verbose,         \* the verbose argument of take_snapshot / getComponentMap
    includeState,    \* the includeState argument of getComponentMap
    mapHist,         \* history: the getComponentMap calls so far, each with its
                     \* arguments, the nodes it tagged and what it returned
    refArg,          \* the backendDOMNodeId argument of the resolver
    snapshot,        \* the last result of take_snapshot
    resolveResult,   \* the response of the resolver
    axEntries,       \* getComponentMap: axNodeMap and a11yHierarchy
    tagNext,         \* getComponentMap: the entry the tagging loop is at
    mapResult,       \* the result of getComponentMap
    serialized,      \* what safeSerialize has made of an object of the page
    walkRun,         \* the component walk run step by step: its call stack
    climbRun,        \* the resolver's upward loops run step by step
    ariaResult,      \* the response of the resolver by role and name
    \* ---- the tool mutex ----
    lock,            \* Mutex.#lock: the number of promises chained so far
    released,        \* the acquisitions whose release() has been called
    req,             \* each request: where it is, the promise it awaits
    trace            \* the handler steps run so far, in order

docVars == <<gen, hook, renderers, fiberRoots, reactLoaded, rendered, painted,
             marks>>
pageVars == <<docVars, cspBypass, preloadScripts, reactPresent, navs>>
treeVars == <<fibers, dom, ax, heap, hookObj>>
sessVars == <<backendInjected, tool, pc, steps, attachResult, calls, startGen,
              log>>
toolVars == <<verbose, includeState, mapHist, serialized, walkRun, climbRun,
              ariaResult, refArg,
              snapshot, resolveResult, axEntries, tagNext, mapResult>>
mutexVars == <<lock, released, req, trace>>
vars == <<pageVars, treeVars, sessVars, toolVars, mutexVars>>

Fibers == 1..Len(fibers)
Elements == 1..Len(dom)

(***************************************************************************)
(* The page.                                                               *)
(***************************************************************************)
NoMark == [tagged |-> FALSE, role |-> "", name |-> "", backendId |-> 0]

\* A new document: scripts registered with evaluateOnNewDocument run first
\* and install the hook; the React runtime has not started and nothing is
\* painted yet; the elements are new ones.
NewDocument ==
    /\ gen' = gen + 1
    /\ hook' = (preloadScripts > 0)
    /\ renderers' = {}
    /\ fiberRoots' = {}
    /\ reactLoaded' = FALSE
    /\ rendered' = FALSE
    /\ painted' = FALSE
    /\ marks' = [e \in Elements |-> NoMark]

\* The React runtime initialises: it registers with the hook only if the
\* hook is there at that moment (hook.inject, ReactSession.ts:74-78).
ReactInit ==
    /\ reactPresent /\ ~reactLoaded
    /\ reactLoaded' = TRUE
    /\ renderers' = IF hook THEN renderers \cup {Cardinality(renderers) + 1}
                            ELSE renderers
    /\ UNCHANGED <<gen, hook, fiberRoots, rendered, painted, marks>>
    /\ UNCHANGED <<cspBypass, preloadScripts, reactPresent, navs>>
    /\ UNCHANGED <<treeVars, sessVars, toolVars, mutexVars>>

\* React commits its tree: a registered renderer reports the root to the
\* hook (hook.onCommitFiberRoot, ReactSession.ts:79-89).
ReactCommit ==
    /\ reactLoaded /\ ~rendered
    /\ rendered' = TRUE
    /\ fiberRoots' = IF hook THEN renderers ELSE {}
    /\ UNCHANGED <<gen, hook, renderers, reactLoaded, painted, marks>>
    /\ UNCHANGED <<cspBypass, preloadScripts, reactPresent, navs>>
    /\ UNCHANGED <<treeVars, sessVars, toolVars, mutexVars>>

\* The document is painted: the platform has an accessibility tree for it.
Paint ==
    /\ ~painted
    /\ painted' = TRUE
    /\ UNCHANGED <<gen, hook, renderers, fiberRoots, reactLoaded, rendered,
                   marks>>
    /\ UNCHANGED <<cspBypass, preloadScripts, reactPresent, navs>>
    /\ UNCHANGED <<treeVars, sessVars, toolVars, mutexVars>>

\* The page navigates or is reloaded by its user.
Navigate ==
    /\ navs < MaxNav
    /\ navs' = navs + 1
    /\ NewDocument
    /\ UNCHANGED <<cspBypass, preloadScripts, reactPresent>>
    /\ UNCHANGED <<treeVars, sessVars, toolVars, mutexVars>>

\* The backendDOMNodeId of DOM node d (0: the document, e: element e) in
\* page-load generation g: the browser numbers the nodes as it creates them
\* and never gives a number twice.
BackendId(g, d) == (g - 1) * (Len(dom) + 1) + d + 1

\* the DOM node of the current document with backend id id, -1 if none
NodeOfId(id) ==
    IF \E d \in 0..Len(dom) : BackendId(gen, d) = id
    THEN CHOOSE d \in 0..Len(dom) : BackendId(gen, d) = id
    ELSE -1

(***************************************************************************)
(* ReactSession.ensureBackendInjected and ReactSession.attach.             *)
(***************************************************************************)
NoAttach == [kind |-> "none", attached |-> FALSE, renderers |-> {}, message |-> ""]

\* ReactSession.ts:45 - the early return of ensureBackendInjected
AlreadyInjectedMut == FALSE
AlreadyInjected == backendInjected

\* ReactSession.ts:107-111 - the check evaluated in the page
HasRenderers == hook /\ renderers # {}

\* ReactSession.ts:148 - reload only when the second check found nothing
NeedsReloadMut(hasRenderers) == TRUE
NeedsReload(hasRenderers) == ~hasRenderers

\* attach() is the caller of ensureBackendInjected in these tools
CallsAttach(t) == t \in {"ensure_react_attached",
                         "get_react_component_from_backend_node_id"}

\* where a tool continues once ensureBackendInjected has returned
AfterInjected(t) == IF CallsAttach(t) THEN "listRenderers" ELSE "axEnable"

\* where a tool continues once attach() has returned
AfterAttach(t) == IF t = "ensure_react_attached" THEN "respond" ELSE "domEnable"

LogEntry(t, threw) ==
    [tool |-> t, threw |-> threw, attach |-> attachResult', steps |-> steps',
     navs |-> navs]

\* the invocation ends: its handler returned (threw = FALSE) or an exception
\* left it (threw = TRUE)
Finish(threw) ==
    /\ pc' = "idle"
    /\ tool' = "none"
    /\ log' = Append(log, LogEntry(tool, threw))

\* ensureBackendInjected throws with message msg: attach() catches it and
\* returns attached:false (ReactSession.ts:176-184); the other callers let
\* it through.
InjectionThrows(msg) ==
    IF CallsAttach(tool)
    THEN /\ attachResult' = [kind |-> "returned", attached |-> FALSE,
                             renderers |-> {}, message |-> msg]
         /\ pc' = AfterAttach(tool)
         /\ UNCHANGED <<tool, log>>
    ELSE /\ attachResult' = attachResult
         /\ Finish(TRUE)

\* a request for tool t arrives, one of at most max; its handler runs up to
\* its first await, which is in ensureBackendInjected unless that returns at
\* once
Begin(t, max) ==
    /\ tool = "none" /\ calls < max
    /\ calls' = calls + 1
    /\ tool' = t
    /\ steps' = <<>>
    /\ attachResult' = NoAttach
    /\ startGen' = gen
    /\ pc' = IF AlreadyInjected THEN AfterInjected(t) ELSE "setBypassCSP"
    /\ UNCHANGED <<backendInjected, log>>
    /\ UNCHANGED <<pageVars, treeVars, mutexVars>>

\* McpResponse.ts:57-58 - ensure_react_attached
StartAttach ==
    /\ Begin("ensure_react_attached", MaxCalls)
    /\ UNCHANGED toolVars

\* ReactSession.ts:50
SetBypassCSP(ok) ==
    /\ pc = "setBypassCSP"
    /\ steps' = Append(steps, "setBypassCSP")
    /\ IF ok
       THEN /\ cspBypass' = TRUE
            /\ pc' = "evaluateOnNewDocument"
            /\ UNCHANGED <<tool, attachResult, log>>
       ELSE /\ cspBypass' = cspBypass
            /\ InjectionThrows("setBypassCSP failed")
    /\ UNCHANGED <<docVars, preloadScripts, reactPresent, navs>>
    /\ UNCHANGED <<backendInjected, calls, startGen>>
    /\ UNCHANGED <<treeVars, toolVars, mutexVars>>

\* ReactSession.ts:95-104
EvaluateOnNewDocument(ok) ==
    /\ pc = "evaluateOnNewDocument"
    /\ steps' = Append(steps, "evaluateOnNewDocument")
    /\ IF ok
       THEN /\ preloadScripts' = preloadScripts + 1
            /\ pc' = "check1"
            /\ UNCHANGED <<tool, attachResult, log>>
       ELSE /\ preloadScripts' = preloadScripts
            /\ InjectionThrows("evaluateOnNewDocument failed")
    /\ UNCHANGED <<docVars, cspBypass, reactPresent, navs>>
    /\ UNCHANGED <<backendInjected, calls, startGen>>
    /\ UNCHANGED <<treeVars, toolVars, mutexVars>>

CheckStep(has) == IF has THEN "check:renderers" ELSE "check:none"

\* ReactSession.ts:107-119
Check1(ok) ==
    /\ pc = "check1"
    /\ IF ok
       THEN /\ steps' = Append(steps, CheckStep(HasRenderers))
            /\ backendInjected' = HasRenderers
            /\ pc' = IF HasRenderers THEN AfterInjected(tool) ELSE "runtimeInject"
            /\ UNCHANGED <<tool, attachResult, log>>
       ELSE /\ steps' = Append(steps, "check:failed")
            /\ backendInjected' = backendInjected
            /\ InjectionThrows("evaluate failed")
    /\ UNCHANGED <<calls, startGen>>
    /\ UNCHANGED <<pageVars, treeVars, toolVars, mutexVars>>

\* ReactSession.ts:124-135 - the bootstrap keeps hook.renderers if a hook
\* exists and creates the hook otherwise
RuntimeInject(ok) ==
    /\ pc = "runtimeInject"
    /\ steps' = Append(steps, "runtimeInject")
    /\ IF ok
       THEN /\ hook' = TRUE
            /\ pc' = "check2"
            /\ UNCHANGED <<tool, attachResult, log>>
       ELSE /\ hook' = hook
            /\ InjectionThrows("Failed to inject React DevTools backend")
    /\ UNCHANGED <<gen, renderers, fiberRoots, reactLoaded, rendered, painted,
                   marks>>
    /\ UNCHANGED <<cspBypass, preloadScripts, reactPresent, navs>>
    /\ UNCHANGED <<backendInjected, calls, startGen>>
    /\ UNCHANGED <<treeVars, toolVars, mutexVars>>

\* ReactSession.ts:138-148 and, when no reload is needed, 162
Check2(ok) ==
    /\ pc = "check2"
    /\ IF ok
       THEN /\ steps' = Append(steps, CheckStep(HasRenderers))
            /\ backendInjected' = ~NeedsReload(HasRenderers)
            /\ pc' = IF NeedsReload(HasRenderers) THEN "reload"
                                                  ELSE AfterInjected(tool)
            /\ UNCHANGED <<tool, attachResult, log>>
       ELSE /\ steps' = Append(steps, "check:failed")
            /\ backendInjected' = backendInjected
            /\ InjectionThrows("Failed to inject React DevTools backend")
    /\ UNCHANGED <<calls, startGen>>
    /\ UNCHANGED <<pageVars, treeVars, toolVars, mutexVars>>

\* ReactSession.ts:150 - a rejected reload may or may not have replaced the
\* document
Reload(ok, replaced) ==
    /\ pc = "reload"
    /\ steps' = Append(steps, "reload")
    /\ (ok => replaced)
    /\ IF replaced THEN NewDocument ELSE UNCHANGED docVars
    /\ IF ok
       THEN /\ pc' = "check3"
            /\ UNCHANGED <<tool, attachResult, log>>
       ELSE InjectionThrows("Failed to inject React DevTools backend")
    /\ UNCHANGED <<cspBypass, preloadScripts, reactPresent, navs>>
    /\ UNCHANGED <<backendInjected, calls, startGen>>
    /\ UNCHANGED <<treeVars, toolVars, mutexVars>>

\* ReactSession.ts:154-162 - the result of the re-check is only logged
Check3(ok) ==
    /\ pc = "check3"
    /\ IF ok
       THEN /\ steps' = Append(steps, CheckStep(HasRenderers))
            /\ backendInjected' = TRUE
            /\ pc' = AfterInjected(tool)
            /\ UNCHANGED <<tool, attachResult, log>>
       ELSE /\ steps' = Append(steps, "check:failed")
            /\ backendInjected' = backendInjected
            /\ InjectionThrows("Failed to inject React DevTools backend")
    /\ UNCHANGED <<calls, startGen>>
    /\ UNCHANGED <<pageVars, treeVars, toolVars, mutexVars>>

\* ReactSession.ts:186-233 - not inside any try: a rejected evaluate leaves
\* attach() as an exception
ListRenderers(ok) ==
    /\ pc = "listRenderers"
    /\ steps' = steps
    /\ IF ok
       THEN /\ attachResult' = [kind |-> "returned", attached |-> TRUE,
                                renderers |-> IF hook THEN renderers ELSE {},
                                message |-> ""]
            /\ pc' = AfterAttach(tool)
            /\ UNCHANGED <<tool, log>>
       ELSE /\ attachResult' = [kind |-> "thrown", attached |-> FALSE,
                                renderers |-> {}, message |-> "evaluate failed"]
            /\ Finish(TRUE)
    /\ UNCHANGED <<backendInjected, calls, startGen>>
    /\ UNCHANGED <<pageVars, treeVars, toolVars, mutexVars>>

\* McpResponse.ts:59-84 - the ensure_react_attached handler formats the
\* result of attach()
Respond ==
    /\ pc = "respond" /\ tool = "ensure_react_attached"
    /\ UNCHANGED <<attachResult, steps>>
    /\ Finish(FALSE)
    /\ UNCHANGED <<backendInjected, calls, startGen>>
    /\ UNCHANGED <<pageVars, treeVars, toolVars, mutexVars>>

(***************************************************************************)
(* The component tree of the page.                                         *)
(*                                                                         *)
(* fibers[f] is a fiber: its tag, its links ret, child and sibling (0 for  *)
(* null), the names its type carries and, for a host fiber, the element    *)
(* its stateNode is. dom[e] is an element: fiber is the fiber its          *)
(* __reactFiber key holds once React has rendered (0: the element is not   *)
(* rendered by React). ax[i] is an accessibility node: the DOM node it     *)
(* stands for (0: the document, e: element e, -1: none), its role and      *)
(* name, whether the platform ignores it, and the indices of its children. *)
(* ax[1] is the root.                                                      *)
(***************************************************************************)
\* props[key] for a prop that holds a string: the empty string when the
\* key is missing
PropValue(props, key) ==
    LET hits == {i \in 1..Len(props) : props[i].key = key} IN
    IF hits = {} THEN "" ELSE props[CHOOSE i \in hits : TRUE].value

\* what parseInt gives for a text that does not start with a digit
NaN == -1

Digits == <<"0", "1", "2", "3", "4", "5", "6", "7", "8", "9">>
IsDigit(c) == \E d \in 1..10 : Digits[d] = c
DigitValue(c) == (CHOOSE d \in 1..10 : Digits[d] = c) - 1

\* parseInt(str, 10): the number the leading decimal digits of str spell,
\* NaN when it starts with none
RECURSIVE ParseDigits(_, _, _)
ParseDigits(str, i, acc) ==
    IF i > Len(str) \/ ~IsDigit(SubSeq(str, i, i)) THEN acc
    ELSE ParseDigits(str, i + 1, acc * 10 + DigitValue(SubSeq(str, i, i)))

ParseInt(str) ==
    IF Len(str) = 0 \/ ~IsDigit(SubSeq(str, 1, 1)) THEN NaN
    ELSE ParseDigits(str, 1, 0)

\* [0, 1, 11, 15].includes(fiber.tag) - McpResponse.ts:944
IsAuthored(tag) == tag \in {0, 1, 11, 15}

\* McpResponse.ts:955-968
GetComponentName(fiber) ==
    IF fiber.displayName # "" THEN fiber.displayName
    ELSE CASE fiber.tag \in {0, 1} ->
                 IF fiber.typeName # "" THEN fiber.typeName
                 ELSE IF fiber.elementTypeName # "" THEN fiber.elementTypeName
                 ELSE "Anonymous"
           [] fiber.tag = 11 ->
                 IF fiber.typeName # "" THEN fiber.typeName ELSE "ForwardRef"
           [] fiber.tag = 15 ->
                 IF fiber.typeName # "" THEN fiber.typeName ELSE "Memo"
           [] OTHER -> "Unknown"

\* McpResponse.ts:970-978
GetComponentType(tag) ==
    CASE tag = 0 -> "FunctionComponent"
      [] tag = 1 -> "ClassComponent"
      [] tag = 11 -> "ForwardRef"
      [] tag = 15 -> "MemoComponent"
      [] OTHER -> "UnknownTag(" \o ToString(tag) \o ")"

\* McpResponse.ts:940-948 - the walk to the nearest authored component:
\*   while (fiber && maxSteps > 0) { maxSteps--; if authored break;
\*                                   fiber = fiber.return; }
\* the value is the fiber the loop ends on, 0 for null
RECURSIVE FindComponent(_, _)
FindComponent(fiber, maxSteps) ==
    IF fiber = 0 \/ maxSteps <= 0 THEN fiber
    ELSE IF IsAuthored(fibers[fiber].tag) THEN fiber
    ELSE FindComponent(fibers[fiber].ret, maxSteps - 1)

\* McpResponse.ts:1003-1017 - extractSource of the resolver by backend id:
\* null is the empty sequence, a number that is undefined the empty
\* sequence too; an owner without a source has the empty sequence
ResolverExtractSource(props) ==
    LET fileName == PropValue(props, "data-inspector-relative-path")
        lineNumber == PropValue(props, "data-inspector-line")
        columnNumber == PropValue(props, "data-inspector-column")
    IN  IF fileName # "" \/ lineNumber # "" \/ columnNumber # ""
        THEN <<[fileName |-> fileName,
                lineNumber |-> IF lineNumber # "" THEN <<ParseInt(lineNumber)>>
                                                  ELSE <<>>,
                columnNumber |-> IF columnNumber # ""
                                 THEN <<ParseInt(columnNumber)>> ELSE <<>>]>>
        ELSE <<>>

\* McpResponse.ts:1023-1034 - the owners loop:
\*   while (current && maxOwners > 0) { if authored { push; maxOwners--; }
\*                                      current = current.return; }
RECURSIVE CollectOwnersMut(_, _)
CollectOwnersMut(current, maxOwners) ==
    IF current = 0 \/ maxOwners <= 0 THEN <<>>
    ELSE IF IsAuthored(fibers[current].tag)
         THEN <<[name |-> GetComponentName(fibers[current]),
                 type |-> GetComponentType(fibers[current].tag),
                 source |-> ResolverExtractSource(fibers[current].props)]>>
              \o CollectOwnersMut(fibers[current].ret, maxOwners - 1)
         ELSE CollectOwnersMut(fibers[current].ret, maxOwners - 1)

RECURSIVE CollectOwners(_, _)
CollectOwners(current, maxOwners) ==
    IF current = 0 \/ maxOwners <= 0 THEN <<>>
    ELSE IF IsAuthored(fibers[current].tag)
         THEN <<[name |-> GetComponentName(fibers[current]),
                 type |-> GetComponentType(fibers[current].tag),
                 source |-> ResolverExtractSource(fibers[current].props)]>>
              \o CollectOwners(fibers[current].ret, maxOwners - 1)
         ELSE CollectOwners(fibers[current].ret, maxOwners)

\* the registration hook is not looked into
NoHookObj == [kind |-> "none"]

\* no walk and no upward loop is being run step by step
NoWalkRun == [pc |-> "none", stack |-> <<>>, processed |-> {}, ret |-> <<>>,
              shown |-> <<>>]
NoClimbRun == [pc |-> "none", fiber |-> 0, left |-> 0, owners |-> <<>>]

\* the resolver by role and name has not answered
NoAria == [kind |-> "none", role |-> "", name |-> "", element |-> 0,
           result |-> <<>>]

NoResult == [kind |-> "none", success |-> FALSE, error |-> "", name |-> "",
             type |-> "", source |-> <<>>, owners |-> <<>>]
Failure(msg) == [kind |-> "returned", success |-> FALSE, error |-> msg,
                 name |-> "", type |-> "", source |-> <<>>, owners |-> <<>>]

\* the fiber the element's __reactFiber key holds, 0 when it has no such key
FiberKey(e) == IF rendered THEN dom[e].fiber ELSE 0

\* McpResponse.ts:926-1047 - the function called on the resolved element
ComponentOfElement(e) ==
    IF FiberKey(e) = 0 THEN Failure("Element has no React fiber")
    ELSE LET fiber == FindComponent(FiberKey(e), MaxSteps) IN
         IF fiber = 0 THEN Failure("No React component found in fiber tree")
         ELSE [kind |-> "returned", success |-> TRUE, error |-> "",
               name |-> GetComponentName(fibers[fiber]),
               type |-> GetComponentType(fibers[fiber].tag),
               source |-> ResolverExtractSource(fibers[fiber].props),
               owners |-> CollectOwners(fibers[fiber].ret, MaxOwners)]

\* the same function called on DOM node d: the document carries no
\* __reactFiber key (McpResponse.ts:934-938)
ComponentOfNode(d) ==
    IF d = 0 THEN Failure("Element has no React fiber")
    ELSE ComponentOfElement(d)

(***************************************************************************)
(* get_react_component_from_snapshot: the resolver by role and name. The   *)
(* function it runs on the element is written out a second time in the     *)
(* source (McpResponse.ts:771-884), so it is modelled a second time, from   *)
(* those lines.                                                            *)
(***************************************************************************)
\* McpResponse.ts:798-811
SnapshotGetComponentName(fiber) ==
    IF fiber.displayName # "" THEN fiber.displayName
    ELSE CASE fiber.tag \in {0, 1} ->
                 IF fiber.typeName # "" THEN fiber.typeName
                 ELSE IF fiber.elementTypeName # "" THEN fiber.elementTypeName
                 ELSE "Anonymous"
           [] fiber.tag = 11 ->
                 IF fiber.typeName # "" THEN fiber.typeName ELSE "ForwardRef"
           [] fiber.tag = 15 ->
                 IF fiber.typeName # "" THEN fiber.typeName ELSE "Memo"
           [] OTHER -> "Unknown"

\* McpResponse.ts:813-821
SnapshotGetComponentType(tag) ==
    CASE tag = 0 -> "FunctionComponent"
      [] tag = 1 -> "ClassComponent"
      [] tag = 11 -> "ForwardRef"
      [] tag = 15 -> "MemoComponent"
      [] OTHER -> "UnknownTag(" \o ToString(tag) \o ")"

\* McpResponse.ts:783-791 - the value is the fiber the loop ends on
RECURSIVE SnapshotFindComponent(_, _)
SnapshotFindComponent(fiber, maxSteps) ==
    IF fiber = 0 \/ maxSteps <= 0 THEN fiber
    ELSE IF fibers[fiber].tag \in {0, 1, 11, 15} THEN fiber
    ELSE SnapshotFindComponent(fibers[fiber].ret, maxSteps - 1)

\* McpResponse.ts:842-856
SnapshotExtractSource(props) ==
    LET fileName == PropValue(props, "data-inspector-relative-path")
        lineNumber == PropValue(props, "data-inspector-line")
        columnNumber == PropValue(props, "data-inspector-column")
    IN  IF fileName # "" \/ lineNumber # "" \/ columnNumber # ""
        THEN <<[fileName |-> fileName,
                lineNumber |-> IF lineNumber # "" THEN <<ParseInt(lineNumber)>>
                                                  ELSE <<>>,
                columnNumber |-> IF columnNumber # ""
                                 THEN <<ParseInt(columnNumber)>> ELSE <<>>]>>
        ELSE <<>>

\* McpResponse.ts:859-871 - the owners loop; in this variant the bound
\* would count every fiber passed
RECURSIVE SnapshotCollectOwnersMut(_, _)
SnapshotCollectOwnersMut(current, maxOwners) ==
    IF current = 0 \/ maxOwners <= 0 THEN <<>>
    ELSE IF fibers[current].tag \in {0, 1, 11, 15}
         THEN <<[name |-> SnapshotGetComponentName(fibers[current]),
                 type |-> SnapshotGetComponentType(fibers[current].tag),
                 source |-> SnapshotExtractSource(fibers[current].props)]>>
              \o SnapshotCollectOwnersMut(fibers[current].ret, maxOwners - 1)
         ELSE SnapshotCollectOwnersMut(fibers[current].ret, maxOwners - 1)

RECURSIVE SnapshotCollectOwners(_, _)
SnapshotCollectOwners(current, maxOwners) ==
    IF current = 0 \/ maxOwners <= 0 THEN <<>>
    ELSE IF fibers[current].tag \in {0, 1, 11, 15}
         THEN <<[name |-> SnapshotGetComponentName(fibers[current]),
                 type |-> SnapshotGetComponentType(fibers[current].tag),
                 source |-> SnapshotExtractSource(fibers[current].props)]>>
              \o SnapshotCollectOwners(fibers[current].ret, maxOwners - 1)
         ELSE SnapshotCollectOwners(fibers[current].ret, maxOwners)

\* McpResponse.ts:771-884 - the function called on the element found
SnapshotComponentOfElement(e) ==
    IF FiberKey(e) = 0 THEN Failure("Element found but has no React fiber")
    ELSE LET fiber == SnapshotFindComponent(FiberKey(e), MaxSteps) IN
         IF fiber = 0 THEN Failure("No React component found in fiber tree")
         ELSE [kind |-> "returned", success |-> TRUE, error |-> "",
               name |-> SnapshotGetComponentName(fibers[fiber]),
               type |-> SnapshotGetComponentType(fibers[fiber].tag),
               source |-> SnapshotExtractSource(fibers[fiber].props),
               owners |-> SnapshotCollectOwners(fibers[fiber].ret, MaxOwners)]

\* the accessibility nodes the selector aria/<name>[role="<role>"] matches:
\* nodes of an element that the platform does not ignore, with that role
\* and, when a name is given, that name
AriaMatches(role, name) ==
    {i \in DOMAIN ax : /\ ax[i].node >= 1
                       /\ ~ax[i].ignored
                       /\ ax[i].role = role
                       /\ (name = "" \/ ax[i].name = name)}

\* McpResponse.ts:758-759 - page.$(ariaSelector): the first matching
\* element in document order, 0 for null. Element e is inside element
\* e + 1, so the outermost match comes first in the document
AriaQuery(role, name) ==
    LET found == {ax[i].node : i \in AriaMatches(role, name)} IN
    IF found = {} THEN 0
    ELSE CHOOSE e \in found : \A other \in found : other <= e

\* McpResponse.ts:754-886 - the answer of the tool once the session is
\* attached
FromSnapshot(role, name) ==
    LET element == AriaQuery(role, name) IN
    [kind |-> "returned", role |-> role, name |-> name, element |-> element,
     result |-> IF element = 0
                THEN Failure("No element found with role=\"" \o role
                             \o "\" and name=\"" \o name \o "\"")
                ELSE SnapshotComponentOfElement(element)]

(***************************************************************************)
(* ReactSession.takeSnapshot: the tree built from the flat node list.      *)
(* A snapshot node is a record of role, name, backendDOMNodeId and the     *)
(* sequence of its children; a node that is left out is the empty          *)
(* sequence, a node that is kept a sequence of one. The uid and the        *)
(* optional accessibility properties of a node are not modelled.           *)
(***************************************************************************)
\* node.backendDOMNodeId, 0 when the node has none
AxBackendId(i) == IF ax[i].node < 0 THEN 0 ELSE BackendId(gen, ax[i].node)

\* ReactSession.ts:339-380
RECURSIVE ProcessNode(_, _)
RECURSIVE ProcessChildren(_, _, _)
\* a processNode that would keep the nodes the platform ignores
ProcessNodeMut(i, v) ==
    <<[role |-> ax[i].role, name |-> ax[i].name,
       backendDOMNodeId |-> AxBackendId(i),
       children |-> ProcessChildren(ax[i].childIds, 1, v)]>>

ProcessNode(i, v) ==
    IF ~v /\ ax[i].ignored THEN <<>>
    ELSE <<[role |-> ax[i].role, name |-> ax[i].name,
            backendDOMNodeId |-> AxBackendId(i),
            children |-> ProcessChildren(ax[i].childIds, 1, v)]>>

\* children that would take the place of a parent that is left out
ProcessChildrenMut(ids, k, v) ==
    IF k > Len(ids) THEN <<>>
    ELSE (IF ids[k] \in DOMAIN ax
          THEN (IF ~v /\ ax[ids[k]].ignored
                THEN ProcessChildren(ax[ids[k]].childIds, 1, v)
                ELSE ProcessNode(ids[k], v))
          ELSE <<>>)
         \o ProcessChildren(ids, k + 1, v)

\* ReactSession.ts:365-377 - children that are unknown or left out are
\* dropped
ProcessChildren(ids, k, v) ==
    IF k > Len(ids) THEN <<>>
    ELSE (IF ids[k] \in DOMAIN ax THEN ProcessNode(ids[k], v) ELSE <<>>)
         \o ProcessChildren(ids, k + 1, v)

NoSnapshot == [kind |-> "none", gen |-> 0, root |-> <<>>]

\* ReactSession.ts:316-318, 383-394 - null when the platform reports no
\* node, otherwise the tree under the first node; gen remembers the
\* document the snapshot was taken of
TakeSnapshotResult(v) ==
    IF ~painted \/ Len(ax) = 0
    THEN [kind |-> "null", gen |-> gen, root |-> <<>>]
    ELSE [kind |-> "snapshot", gen |-> gen, root |-> ProcessNode(1, v)]

\* the backend ids a snapshot tree shows
RECURSIVE IdsOf(_)
IdsOf(nodes) ==
    IF nodes = <<>> THEN {}
    ELSE ({nodes[1].backendDOMNodeId} \ {0})
         \cup IdsOf(nodes[1].children) \cup IdsOf(Tail(nodes))

(***************************************************************************)
(* ReactSession.getComponentMap: the maps built from the snapshot.         *)
(***************************************************************************)
\* ReactSession.ts:408-422 - axNodeMap as the sequence of its entries in
\* insertion order
RECURSIVE BuildAxMap(_)
BuildAxMap(nodes) ==
    IF nodes = <<>> THEN <<>>
    ELSE (IF nodes[1].backendDOMNodeId # 0
          THEN <<[id |-> nodes[1].backendDOMNodeId, role |-> nodes[1].role,
                  name |-> nodes[1].name]>>
          ELSE <<>>)
         \o BuildAxMap(nodes[1].children) \o BuildAxMap(Tail(nodes))

\* the backend ids of the nodes of a sequence that have one
RECURSIVE ChildIdsOf(_)
ChildIdsOf(nodes) ==
    IF nodes = <<>> THEN <<>>
    ELSE (IF nodes[1].backendDOMNodeId # 0
          THEN <<nodes[1].backendDOMNodeId>> ELSE <<>>)
         \o ChildIdsOf(Tail(nodes))

\* ReactSession.ts:425-440 - a11yHierarchy as the sequence of its entries;
\* the children of a node without a backend id are not visited
RECURSIVE BuildA11yHierarchy(_)
BuildA11yHierarchy(nodes) ==
    IF nodes = <<>> THEN <<>>
    ELSE (IF nodes[1].backendDOMNodeId # 0
          THEN BuildA11yHierarchy(nodes[1].children)
               \o <<[id |-> nodes[1].backendDOMNodeId,
                     childIds |-> ChildIdsOf(nodes[1].children)]>>
          ELSE <<>>)
         \o BuildA11yHierarchy(Tail(nodes))

NoEntries == [map |-> <<>>, hierarchy |-> <<>>]

\* ReactSession.ts:443-459 and 607-623
SkipRoles == {"generic", "StaticText", "InlineTextBox", "none", "presentation"}
IsSemanticOrInteractive(role) == role # "" /\ role \notin SkipRoles

\* axNodeMapObj[id]: the entries of the map for id (none, or the last one
\* set)
AxInfo(id) ==
    LET hits == {k \in 1..Len(axEntries.map) : axEntries.map[k].id = id} IN
    IF hits = {} THEN <<>>
    ELSE <<axEntries.map[CHOOSE k \in hits : \A j \in hits : j <= k]>>

\* a11yHierarchyObj[backendId] || []
A11yChildren(id) ==
    LET h == axEntries.hierarchy
        hits == {k \in 1..Len(h) : h[k].id = id} IN
    IF hits = {} THEN <<>>
    ELSE h[CHOOSE k \in hits : \A j \in hits : j <= k].childIds

(***************************************************************************)
(* ReactSession.getComponentMap: the walk evaluated in the page            *)
(* (ReactSession.ts:498-843).                                              *)
(*                                                                         *)
(* A line of the output is a record: its prefix as the sequence of the     *)
(* three-character indentation units, and its segments in the order the    *)
(* code appends them to the line: <<"name", n>>, <<"props", summary>>,     *)
(* <<"state", text>>, <<"aria", parts>>, <<"source", location>>. The field *)
(* "of" is not part of the text: it remembers which fiber or which         *)
(* accessibility node the line was pushed for.                             *)
(***************************************************************************)
\* the indentation units, written in ASCII: the branch and the corner
\* connector with their blank (ReactSession.ts:760-761) and what line 722
\* turns them into
Tee == "|- "
Ell == "+- "
Bar == "|  "
Blank == "   "

\* ReactSession.ts:722 - in the prefix of the children a branch connector
\* becomes a vertical bar and a corner connector becomes blank
ChildPrefix(prefix) ==
    [i \in 1..Len(prefix) |->
        IF prefix[i] = Tee THEN Bar
        ELSE IF prefix[i] = Ell THEN Blank ELSE prefix[i]]

\* ReactSession.ts:507-532
WalkComponentName(fiber) ==
    IF fiber.displayName # "" THEN fiber.displayName
    ELSE CASE fiber.tag \in {0, 1} ->
                 IF fiber.typeName # "" THEN fiber.typeName
                 ELSE IF fiber.elementTypeName # "" THEN fiber.elementTypeName
                 ELSE "Anonymous"
           [] fiber.tag = 11 ->
                 IF fiber.typeName # "" THEN fiber.typeName
                 ELSE IF fiber.elementTypeName # "" THEN fiber.elementTypeName
                 ELSE "ForwardRef"
           [] fiber.tag = 15 ->
                 IF fiber.typeName # "" THEN fiber.typeName
                 ELSE IF fiber.elementTypeName # "" THEN fiber.elementTypeName
                 ELSE "Memo"
           [] OTHER -> "Unknown"

\* ReactSession.ts:577-604 - the markers of the fiber's own element, or of
\* the first child (in sibling order) that yields any; the empty sequence
\* for null
RECURSIVE GetA11yInfo(_)
RECURSIVE FirstChildA11yInfo(_)
GetA11yInfo(f) ==
    LET fiber == fibers[f] IN
    IF fiber.tag = 5 /\ fiber.elem # 0 /\ marks[fiber.elem].tagged
    THEN <<marks[fiber.elem]>>
    ELSE IF IsAuthored(fiber.tag) THEN FirstChildA11yInfo(fiber.child)
    ELSE <<>>

\* ReactSession.ts:592-600
FirstChildA11yInfo(child) ==
    IF child = 0 THEN <<>>
    ELSE LET info == GetA11yInfo(child) IN
         IF info # <<>> THEN info
         ELSE FirstChildA11yInfo(fibers[child].sibling)

\* ReactSession.ts:751-756 - the children of a fiber, along the sibling
\* links
RECURSIVE SiblingChainMut(_)
SiblingChainMut(child) ==
    IF child = 0 THEN <<>>
    ELSE SiblingChainMut(fibers[child].sibling) \o <<child>>

RECURSIVE SiblingChain(_)
SiblingChain(child) ==
    IF child = 0 THEN <<>>
    ELSE <<child>> \o SiblingChain(fibers[child].sibling)

\* ReactSession.ts:701-706 - role="..." name="..."
AriaParts(role, name) ==
    (IF role # "" THEN <<<<"role", role>>>> ELSE <<>>)
    \o (IF name # "" THEN <<<<"name", name>>>> ELSE <<>>)

\* lines.push(line)
Line(prefix, segments, of) ==
    [prefix |-> prefix, segments |-> segments, of |-> of]

\* line += ...: a part of a line, left out when its value is the empty one
Seg(kind, value, empty) ==
    IF value = empty THEN <<>> ELSE <<<<kind, value>>>>

\* String.prototype.startsWith
StartsWith(str, p) == Len(str) >= Len(p) /\ SubSeq(str, 1, Len(p)) = p

\* ReactSession.ts:656-658 - the keys the props summary leaves out
HiddenProp(key) ==
    \/ StartsWith(key, "__react")
    \/ StartsWith(key, "data-inspector")
    \/ StartsWith(key, "data-function")
    \/ key = "children"

PropsShown == 3
MaxValueLen == 20

\* ReactSession.ts:661-678 - one prop of the summary; p.type is what typeof
\* gives for the value ("null" and "undefined" for the two empty values)
\* and p.value is the text of the value
FormatProp(p) ==
    CASE p.type = "string" ->
             p.key \o "=\"" \o (IF Len(p.value) > MaxValueLen
                                THEN SubSeq(p.value, 1, MaxValueLen) \o "..."
                                ELSE p.value) \o "\""
      [] p.type \in {"number", "boolean", "null", "undefined"} ->
             p.key \o "={" \o p.value \o "}"
      [] p.type = "function" -> p.key \o "={fn}"
      [] p.type = "object" -> p.key \o "={...}"
      [] OTHER -> p.key

\* ReactSession.ts:654-686 - the formatted props of the summary, at most
\* three of them, in the order of the keys
PropsSummary(props) ==
    LET keys == SelectSeq(props, LAMBDA p : ~HiddenProp(p.key))
        shown == SubSeq(keys, 1, IF Len(keys) < PropsShown THEN Len(keys)
                                                          ELSE PropsShown)
    IN  [i \in 1..Len(shown) |-> FormatProp(shown[i])]

\* ReactSession.ts:535-552 - null is the empty sequence; a number that is
\* undefined is the empty sequence too
ExtractSource(props) ==
    LET fileName == PropValue(props, "data-inspector-relative-path")
        lineNumber == PropValue(props, "data-inspector-line")
        columnNumber == PropValue(props, "data-inspector-column")
    IN  IF fileName # "" \/ lineNumber # "" \/ columnNumber # ""
        THEN <<[fileName |-> fileName,
                lineNumber |-> IF lineNumber # "" THEN <<ParseInt(lineNumber)>>
                                                  ELSE <<>>,
                columnNumber |-> IF columnNumber # ""
                                 THEN <<ParseInt(columnNumber)>> ELSE <<>>]>>
        ELSE <<>>

\* source.lineNumber || '?': undefined, NaN and 0 give the question mark
NumberOrUnknown(n) ==
    IF n = <<>> \/ n[1] = NaN \/ n[1] = 0 THEN "?" ELSE ToString(n[1])

\* ReactSession.ts:710-717 - the text between the parentheses, empty when
\* there is nothing to show
SourceText(source) ==
    IF source = <<>> \/ source[1].fileName = "" THEN ""
    ELSE source[1].fileName \o ":" \o NumberOrUnknown(source[1].lineNumber)
         \o ":" \o NumberOrUnknown(source[1].columnNumber)

StateLimit == 50

\* ReactSession.ts:689-697 - fiber.state is <<>> for a state that is null
\* (or falsy), otherwise <<text>> with the text JSON.stringify gives for
\* its serialisation
StateText(fiber, includeStateArg) ==
    IF includeStateArg /\ fiber.state # <<>>
    THEN (IF Len(fiber.state[1]) < StateLimit THEN fiber.state[1] ELSE "{...}")
    ELSE ""

\* ReactSession.ts:725-748 - the lines of the accessibility children of the
\* component's element that no component has claimed so far
A11yOnlyLines(info, childPrefix, claimed) ==
    IF info = <<>> \/ info[1].backendId = 0 THEN <<>>
    ELSE LET Shown(childId) ==
                 /\ AxInfo(childId) # <<>>
                 /\ childId \notin claimed
                 /\ IsSemanticOrInteractive(AxInfo(childId)[1].role)
             only == SelectSeq(A11yChildren(info[1].backendId), Shown)
         IN  [i \in 1..Len(only) |->
                 Line(childPrefix \o <<Tee>>,
                      <<<<"aria", AriaParts(AxInfo(only[i])[1].role,
                                            AxInfo(only[i])[1].name)>>>>,
                      [kind |-> "a11y", fiber |-> 0, id |-> only[i]])]

\* one annotation for every marked host child instead of one for the line
RECURSIVE AriaOfEach(_, _)
AriaOfEach(children, k) ==
    IF k > Len(children) THEN <<>>
    ELSE (IF GetA11yInfo(children[k]) # <<>>
          THEN <<<<"aria", AriaParts(GetA11yInfo(children[k])[1].role,
                                    GetA11yInfo(children[k])[1].name)>>>>
          ELSE <<>>)
         \o AriaOfEach(children, k + 1)

ComponentSegmentsEach(fiber, info, includeStateArg) ==
    Seg("name", WalkComponentName(fiber), "")
    \o Seg("props", PropsSummary(fiber.props), <<>>)
    \o Seg("state", StateText(fiber, includeStateArg), "")
    \o AriaOfEach(SiblingChain(fiber.child), 1)
    \o Seg("source", SourceText(ExtractSource(fiber.props)), "")

\* ReactSession.ts:641-719 - the line of an authored component
ComponentSegments(fiber, info, includeStateArg) ==
    Seg("name", WalkComponentName(fiber), "")
    \o Seg("props", PropsSummary(fiber.props), <<>>)
    \o Seg("state", StateText(fiber, includeStateArg), "")
    \o Seg("aria", IF info = <<>> THEN <<>>
                   ELSE AriaParts(info[1].role, info[1].name), <<>>)
    \o Seg("source", SourceText(ExtractSource(fiber.props)), "")

\* ReactSession.ts:632-812 - st is what the walk has so far: the lines, the
\* fibers processed and the backend ids that components have claimed
RECURSIVE WalkFiber(_, _, _, _)
RECURSIVE WalkChildren(_, _, _, _)
RECURSIVE WalkThrough(_, _, _, _)
WalkFiber(f, prefix, isLast, st) ==
    IF f = 0 \/ f \in st.processed THEN st
    ELSE
    LET fiber == fibers[f]
        s1 == [st EXCEPT !.processed = @ \cup {f}]
        info == GetA11yInfo(f)
        childPrefix == ChildPrefix(prefix)
        children == SiblingChain(fiber.child)
    IN  IF IsAuthored(fiber.tag)
        THEN LET id == IF info = <<>> THEN 0 ELSE info[1].backendId
                 claimed == IF id # 0 THEN s1.claimed \cup {id}
                                      ELSE s1.claimed
                 line == Line(prefix,
                              ComponentSegments(fiber, info, includeState),
                              [kind |-> "component", fiber |-> f, id |-> id])
                 s2 == [s1 EXCEPT
                          !.claimed = claimed,
                          !.lines = @ \o <<line>>
                                      \o A11yOnlyLines(info, childPrefix, claimed)]
             IN  WalkChildren(children, 1, childPrefix, s2)
        ELSE IF fiber.tag = 5 /\ info # <<>>
                /\ IsSemanticOrInteractive(info[1].role)
        THEN LET name == IF fiber.typeName # "" THEN fiber.typeName
                                                ELSE "HostElement"
                 line == Line(prefix,
                              Seg("name", name, "")
                              \o Seg("aria", AriaParts(info[1].role,
                                                       info[1].name), <<>>),
                              [kind |-> "host", fiber |-> f,
                               id |-> info[1].backendId])
                 s2 == [s1 EXCEPT !.lines = @ \o <<line>>]
             IN  WalkChildren(children, 1, childPrefix, s2)
        ELSE WalkThrough(fiber.child, prefix, isLast, s1)

\* ReactSession.ts:758-762 and 791-795 - children.forEach
WalkChildren(children, idx, childPrefix, st) ==
    IF idx > Len(children) THEN st
    ELSE LET isLastChild == (idx = Len(children))
             connector == IF isLastChild THEN Ell ELSE Tee
         IN  WalkChildren(children, idx + 1, childPrefix,
                          WalkFiber(children[idx], childPrefix \o <<connector>>,
                                    isLastChild, st))

\* ReactSession.ts:798-802 and 806-810 - a fiber that shows no line passes
\* its own prefix on to its children
WalkThrough(child, prefix, isLast, st) ==
    IF child = 0 THEN st
    ELSE WalkThrough(fibers[child].sibling, prefix, isLast,
                     WalkFiber(child, prefix, isLast, st))

\* ReactSession.ts:816-827 - root.current of the roots the renderer has
\* committed, in the order the set of roots iterates: the order in which
\* they were added, which is the order of the root fibers in fibers
RootFibers ==
    SelectSeq([i \in 1..Len(fibers) |-> i], LAMBDA i : fibers[i].tag = 3)

\* ReactSession.ts:820-831 - roots.forEach
RECURSIVE WalkRoots(_, _, _)
WalkRoots(roots, k, st) ==
    IF k > Len(roots) THEN st
    ELSE WalkRoots(roots, k + 1, WalkFiber(roots[k], <<>>, TRUE, st))

NoMap == [kind |-> "none", error |-> "", lines |-> <<>>]
MapError(msg) == [kind |-> "text", error |-> msg, lines |-> <<>>]

\* ReactSession.ts:822-823 - the two lines pushed before the first root
HeaderLines ==
    <<Line(<<>>, <<<<"name", "React Component Tree:">>>>,
           [kind |-> "header", fiber |-> 0, id |-> 0]),
      Line(<<>>, <<>>, [kind |-> "header", fiber |-> 0, id |-> 0])>>

\* ReactSession.ts:500-504 and 814-849 - what getComponentMap returns once
\* the walk has been evaluated
WalkResult ==
    IF ~hook THEN MapError("React DevTools hook not found or no renderers")
    ELSE IF fiberRoots = {} THEN MapError("No React roots found")
    ELSE [kind |-> "text", error |-> "",
          lines |-> WalkRoots(RootFibers, 1,
                              [lines |-> HeaderLines,
                               processed |-> {},
                               claimed |-> {}]).lines]

(***************************************************************************)
(* safeSerialize (McpResponse.ts:823-840 and 980-1001,                     *)
(* ReactSession.ts:555-574).                                               *)
(*                                                                         *)
(* The objects of the page are the entries of heap: an object, an array,   *)
(* a React element or a DOM node, with its entries in key order. A value   *)
(* is a primitive, [t |-> "prim", v |-> text], or a reference to an object *)
(* of the heap, [t |-> "ref", v |-> index]. What safeSerialize returns is  *)
(* a tree: a primitive, a text, or an object or an array with the values   *)
(* made of its entries; the field "of" remembers the object a part of the  *)
(* result was made from.                                                   *)
(***************************************************************************)
Prim(text) == [t |-> "prim", v |-> text]
Ref(i) == [t |-> "ref", v |-> i]

\* the three copies differ in how many items and entries they keep
ArrayLimit(copy) == IF copy = "ReactSession" THEN 10 ELSE 100
EntryLimit(copy) == IF copy = "ReactSession" THEN 20 ELSE 50

FirstOf(seq, n) == SubSeq(seq, 1, IF Len(seq) < n THEN Len(seq) ELSE n)

\* seen.has(obj), without the set of the objects seen
SeenHasMut(seen, i) == FALSE

\* seen.has(obj)
SeenHas(seen, i) == i \in seen

\* the value is [out |-> what is returned, seen |-> the set seen after it]
RECURSIVE SafeSerialize(_, _, _, _)
RECURSIVE SerializeEach(_, _, _, _, _)
SafeSerialize(value, maxDepth, seen, copy) ==
    IF value.t # "ref" THEN [out |-> [kind |-> "prim", v |-> value.v], seen |-> seen]
    ELSE
    LET i == value.v
        Text(str) == [kind |-> "text", v |-> str, of |-> i]
        seenNow == seen \cup {i}
    IN  IF SeenHas(seen, i) THEN [out |-> Text("[Circular]"), seen |-> seen]
        ELSE IF maxDepth <= 0 THEN [out |-> Text("[Max Depth]"), seen |-> seenNow]
        ELSE IF heap[i].kind = "array"
        THEN LET items == SerializeEach(FirstOf(heap[i].entries, ArrayLimit(copy)),
                                        1, maxDepth - 1, seenNow, copy)
             IN  [out |-> [kind |-> "array", of |-> i, entries |-> items.outs],
                  seen |-> items.seen]
        ELSE IF heap[i].kind = "element"
        THEN [out |-> Text("[React Element]"), seen |-> seenNow]
        ELSE IF heap[i].kind = "node"
        THEN [out |-> Text("[DOM Node]"), seen |-> seenNow]
        ELSE LET entries == SerializeEach(FirstOf(heap[i].entries,
                                                  EntryLimit(copy)),
                                          1, maxDepth - 1, seenNow, copy)
             IN  [out |-> [kind |-> "object", of |-> i, entries |-> entries.outs],
                  seen |-> entries.seen]

\* the items of an array or the entries of an object one after the other,
\* with the same set of objects seen; an entry whose key starts with
\* __react is left out
SerializeEach(entries, k, maxDepth, seen, copy) ==
    IF k > Len(entries) THEN [outs |-> <<>>, seen |-> seen]
    ELSE IF StartsWith(entries[k].key, "__react")
    THEN SerializeEach(entries, k + 1, maxDepth, seen, copy)
    ELSE LET first == SafeSerialize(entries[k].value, maxDepth, seen, copy)
             rest == SerializeEach(entries, k + 1, maxDepth, first.seen, copy)
         IN  [outs |-> <<[key |-> entries[k].key, value |-> first.out]>>
                       \o rest.outs,
              seen |-> rest.seen]

\* the calls of safeSerialize: the props and the state of the component
\* the resolvers return (McpResponse.ts:879-880 and 1040-1041) and the
\* state getComponentMap shows (ReactSession.ts:690)
SerializeCalls ==
    {[copy |-> "McpResponse", maxDepth |-> 3],
     [copy |-> "McpResponse", maxDepth |-> 2],
     [copy |-> "ReactSession", maxDepth |-> 1]}

NoSerialized == [kind |-> "none", call |-> <<>>, out |-> <<>>]

\* safeSerialize is called on the first object of the heap
Serialize(call) ==
    /\ serialized.kind = "none"
    /\ serialized' = [kind |-> "returned", call |-> call,
                      out |-> SafeSerialize(Ref(1), call.maxDepth, {},
                                            call.copy).out]
    /\ UNCHANGED <<verbose, includeState, mapHist, walkRun, climbRun,
                   ariaResult, refArg, snapshot, resolveResult, axEntries,
                   tagNext, mapResult>>
    /\ UNCHANGED <<pageVars, sessVars, treeVars, mutexVars>>

(***************************************************************************)
(* The tool take_snapshot (McpResponse.ts:201-208) over                    *)
(* ReactSession.takeSnapshot (ReactSession.ts:308-395).                    *)
(***************************************************************************)
\* McpResponse.ts:202 - the request carries the verbose argument
StartSnapshot(v) ==
    /\ Begin("take_snapshot", MaxCalls)
    /\ verbose' = v
    /\ UNCHANGED <<includeState, mapHist, serialized, walkRun, climbRun,
                   ariaResult, refArg,
                   snapshot, resolveResult, axEntries, tagNext, mapResult>>

\* ReactSession.ts:313 - Accessibility.enable, not inside any try
AxEnable(ok) ==
    /\ pc = "axEnable"
    /\ UNCHANGED <<attachResult, steps>>
    /\ IF ok
       THEN /\ pc' = "getFullAXTree"
            /\ UNCHANGED <<tool, log>>
       ELSE Finish(TRUE)
    /\ UNCHANGED <<backendInjected, calls, startGen>>
    /\ UNCHANGED <<pageVars, treeVars, toolVars, mutexVars>>

\* ReactSession.ts:314-394 and McpResponse.ts:203-207 - the tree is read,
\* the snapshot is built and the handler puts it in its response
SnapshotTree(ok) ==
    /\ pc = "getFullAXTree" /\ tool = "take_snapshot"
    /\ UNCHANGED <<attachResult, steps>>
    /\ snapshot' = IF ok THEN TakeSnapshotResult(verbose) ELSE snapshot
    /\ Finish(~ok)
    /\ UNCHANGED <<backendInjected, calls, startGen>>
    /\ UNCHANGED <<verbose, includeState, mapHist, serialized, walkRun, climbRun,
                   ariaResult,
                   refArg, resolveResult, axEntries, tagNext, mapResult>>
    /\ UNCHANGED <<pageVars, treeVars, mutexVars>>

(***************************************************************************)
(* The tool get_react_component_from_backend_node_id                       *)
(* (McpResponse.ts:896-1059).                                              *)
(***************************************************************************)
\* McpResponse.ts:897-899 - the request carries a backend id that the last
\* snapshot shows; attach() runs first, outside the handler's try
StartResolver(id) ==
    /\ snapshot.kind = "snapshot"
    /\ id \in IdsOf(snapshot.root)
    /\ Begin("get_react_component_from_backend_node_id", MaxCalls)
    /\ refArg' = id
    /\ resolveResult' = NoResult
    /\ UNCHANGED <<verbose, includeState, mapHist, serialized, walkRun, climbRun,
                   ariaResult,
                   snapshot, axEntries, tagNext, mapResult>>

\* the handler's catch (McpResponse.ts:1052-1058) and its early return
\* (914-921): the response carries success:false and the message
RespondFailure(msg) ==
    /\ resolveResult' = Failure(msg)
    /\ Finish(FALSE)

\* McpResponse.ts:906
DomEnable(ok) ==
    /\ pc = "domEnable"
    /\ UNCHANGED <<attachResult, steps>>
    /\ IF ok
       THEN /\ pc' = "getDocument"
            /\ UNCHANGED <<tool, log, resolveResult>>
       ELSE RespondFailure("DOM.enable failed")
    /\ UNCHANGED <<backendInjected, calls, startGen>>
    /\ UNCHANGED <<verbose, includeState, mapHist, serialized, walkRun, climbRun,
                   ariaResult,
                   refArg, snapshot, axEntries, tagNext, mapResult>>
    /\ UNCHANGED <<pageVars, treeVars, mutexVars>>

\* McpResponse.ts:907
GetDocument(ok) ==
    /\ pc = "getDocument"
    /\ UNCHANGED <<attachResult, steps>>
    /\ IF ok
       THEN /\ pc' = "resolveNode"
            /\ UNCHANGED <<tool, log, resolveResult>>
       ELSE RespondFailure("DOM.getDocument failed")
    /\ UNCHANGED <<backendInjected, calls, startGen>>
    /\ UNCHANGED <<verbose, includeState, mapHist, serialized, walkRun, climbRun,
                   ariaResult,
                   refArg, snapshot, axEntries, tagNext, mapResult>>
    /\ UNCHANGED <<pageVars, treeVars, mutexVars>>

\* the answers of DOM.resolveNode: an object for a node of the current
\* document; for an id of a document that is gone the call is rejected or
\* answers without an object; any call may be rejected by the transport
ResolveOutcomes(id) ==
    IF NodeOfId(id) >= 0 THEN {"object", "rejected"}
                         ELSE {"noObject", "rejected"}

\* McpResponse.ts:910-921
ResolveNode(outcome) ==
    /\ pc = "resolveNode"
    /\ UNCHANGED <<attachResult, steps>>
    /\ outcome \in ResolveOutcomes(refArg)
    /\ CASE outcome = "object" ->
              /\ pc' = "callFunctionOn"
              /\ UNCHANGED <<tool, log, resolveResult>>
         [] outcome = "noObject" ->
              RespondFailure("Failed to resolve backendNodeId to DOM element")
         [] outcome = "rejected" ->
              RespondFailure("No node with given id found")
    /\ UNCHANGED <<backendInjected, calls, startGen>>
    /\ UNCHANGED <<verbose, includeState, mapHist, serialized, walkRun, climbRun,
                   ariaResult,
                   refArg, snapshot, axEntries, tagNext, mapResult>>
    /\ UNCHANGED <<pageVars, treeVars, mutexVars>>

\* McpResponse.ts:924-1051 - the function runs on the resolved element; the
\* call is rejected when the document of the object is gone
CallFunctionOn(ok) ==
    /\ pc = "callFunctionOn"
    /\ UNCHANGED <<attachResult, steps>>
    /\ IF ok /\ NodeOfId(refArg) >= 0
       THEN /\ resolveResult' = ComponentOfNode(NodeOfId(refArg))
            /\ Finish(FALSE)
       ELSE RespondFailure("Runtime.callFunctionOn failed")
    /\ UNCHANGED <<backendInjected, calls, startGen>>
    /\ UNCHANGED <<verbose, includeState, mapHist, serialized, walkRun, climbRun,
                   ariaResult,
                   refArg, snapshot, axEntries, tagNext, mapResult>>
    /\ UNCHANGED <<pageVars, treeVars, mutexVars>>

(***************************************************************************)
(* ReactSession.getComponentMap (ReactSession.ts:397-850).                 *)
(***************************************************************************)
\* ReactSession.ts:397-399 - ensureBackendInjected runs first; the second
\* one, inside takeSnapshot (309), finds the flag set and returns at once
StartMap(v, includeStateArg, max) ==
    /\ Begin("get_component_map", max)
    /\ verbose' = v
    /\ includeState' = includeStateArg
    /\ mapHist' = Append(mapHist, [args |-> <<v, includeStateArg>>,
                                   attempted |-> <<>>, tagged |-> {},
                                   result |-> NoMap])
    /\ mapResult' = NoMap
    /\ axEntries' = NoEntries
    /\ tagNext' = 0
    /\ UNCHANGED <<serialized, walkRun, climbRun,
                   ariaResult, refArg, snapshot, resolveResult>>

\* ReactSession.ts:463-467 - the first entry at or after k that the tagging
\* loop does not skip, Len + 1 when there is none
RECURSIVE NextSemantic(_, _)
NextSemantic(map, k) ==
    IF k > Len(map) THEN k
    ELSE IF IsSemanticOrInteractive(map[k].role) THEN k
    ELSE NextSemantic(map, k + 1)

\* the backend ids of the entries before entry k that the tagging loop
\* does not skip, in the order of the map
Attempts(map, k) ==
    LET before == SelectSeq(SubSeq(map, 1, k - 1),
                            LAMBDA entry : IsSemanticOrInteractive(entry.role))
    IN  [j \in 1..Len(before) |-> before[j].id]

\* a catch that would leave the loop
AfterTagMut(ok, next, end) == IF ok THEN next ELSE end

\* ReactSession.ts:487-490 - catch (e) { continue; }: after an entry, tagged
\* or not, the loop goes on with the next one
AfterTag(ok, next, end) == next

\* where getComponentMap continues with the tagging loop at entry k
TagOrWalk(map, k) == IF k > Len(map) THEN "walk" ELSE "tag"

\* the history of the calls once the call in progress has got a result
Returned(result) == [mapHist EXCEPT ![Len(mapHist)].result = result]

\* a marker that is taken away from an element that carries one already
MarkerOfParentMut(entry) ==
    [tagged |-> TRUE, role |-> entry.role, name |-> entry.name,
     backendId |-> entry.id - 1]

MarkerMut(entry) ==
    IF marks[NodeOfId(entry.id)].tagged THEN NoMark
    ELSE [tagged |-> TRUE, role |-> entry.role, name |-> entry.name,
          backendId |-> entry.id]

\* ReactSession.ts:479-484 - the markers set on the element of an entry
Marker(entry) ==
    [tagged |-> TRUE, role |-> entry.role, name |-> entry.name,
     backendId |-> entry.id]

\* ReactSession.ts:314-318 and 402-440 - the tree is read; no snapshot
\* makes getComponentMap return null; a snapshot without a root makes
\* buildAxMap read a property of null
MapSnapshot(ok) ==
    /\ pc = "getFullAXTree" /\ tool = "get_component_map"
    /\ UNCHANGED <<attachResult, steps>>
    /\ LET snap == TakeSnapshotResult(verbose)
           map == BuildAxMap(snap.root)
       IN  CASE ~ok ->
                  /\ Finish(TRUE)
                  /\ UNCHANGED <<mapResult, axEntries, tagNext>>
             [] ok /\ snap.kind = "null" ->
                  /\ mapResult' = [kind |-> "null", error |-> "", lines |-> <<>>]
                  /\ Finish(FALSE)
                  /\ UNCHANGED <<axEntries, tagNext>>
             [] ok /\ snap.kind # "null" /\ snap.root = <<>> ->
                  /\ Finish(TRUE)
                  /\ UNCHANGED <<mapResult, axEntries, tagNext>>
             [] OTHER ->
                  /\ axEntries' = [map |-> map,
                                   hierarchy |-> BuildA11yHierarchy(snap.root)]
                  /\ tagNext' = NextSemantic(map, 1)
                  /\ pc' = TagOrWalk(map, NextSemantic(map, 1))
                  /\ UNCHANGED <<tool, log, mapResult>>
    /\ mapHist' = Returned(mapResult')
    /\ UNCHANGED <<backendInjected, calls, startGen>>
    /\ UNCHANGED <<verbose, includeState, serialized, walkRun, climbRun,
                   ariaResult, refArg,
                   snapshot, resolveResult>>
    /\ UNCHANGED <<pageVars, treeVars, mutexVars>>

\* ReactSession.ts:469-490 - one entry of the tagging loop: the node is
\* resolved and the markers are set on it; a node that does not resolve, a
\* rejected call or a node that is not an element leaves no marker
TagEntry(ok) ==
    /\ pc = "tag"
    /\ LET entry == axEntries.map[tagNext]
           d == NodeOfId(entry.id)
           next == NextSemantic(axEntries.map, tagNext + 1)
       IN  /\ marks' = IF ok /\ d >= 1
                       THEN [marks EXCEPT ![d] = Marker(entry)]
                       ELSE marks
           /\ mapHist' = [mapHist EXCEPT
                            ![Len(mapHist)].attempted = Append(@, entry.id),
                            ![Len(mapHist)].tagged =
                                IF ok /\ d >= 1 THEN @ \cup {entry.id} ELSE @]
           /\ tagNext' = AfterTag(ok, next, Len(axEntries.map) + 1)
           /\ pc' = TagOrWalk(axEntries.map, tagNext')
    /\ UNCHANGED <<gen, hook, renderers, fiberRoots, reactLoaded, rendered,
                   painted>>
    /\ UNCHANGED <<cspBypass, preloadScripts, reactPresent, navs>>
    /\ UNCHANGED <<backendInjected, tool, steps, attachResult, calls, startGen,
                   log>>
    /\ UNCHANGED <<verbose, includeState, serialized, walkRun, climbRun,
                   ariaResult, refArg,
                   snapshot, resolveResult, axEntries, mapResult>>
    /\ UNCHANGED <<treeVars, mutexVars>>

\* ReactSession.ts:498-849 - the walk is evaluated in the page, not inside
\* any try
Walk(ok) ==
    /\ pc = "walk"
    /\ UNCHANGED <<attachResult, steps>>
    /\ mapResult' = IF ok THEN WalkResult ELSE mapResult
    /\ mapHist' = Returned(mapResult')
    /\ Finish(~ok)
    /\ UNCHANGED <<backendInjected, calls, startGen>>
    /\ UNCHANGED <<verbose, includeState, serialized, walkRun, climbRun,
                   ariaResult, refArg,
                   snapshot, resolveResult, axEntries, tagNext>>
    /\ UNCHANGED <<pageVars, treeVars, mutexVars>>

\* a page on which React runs and the hook is attached, and an idle session:
\* where the specifications of the mutex and of the resolver function start
AttachedPage ==
    /\ gen = 1 /\ cspBypass = TRUE /\ preloadScripts = 1 /\ hook = TRUE
    /\ renderers = {1} /\ fiberRoots = {1} /\ reactPresent = TRUE
    /\ reactLoaded = TRUE /\ rendered = TRUE /\ painted = TRUE /\ navs = 0
    /\ backendInjected = TRUE /\ tool = "none" /\ pc = "idle"
    /\ steps = <<>> /\ calls = 0 /\ startGen = 1 /\ log = <<>>
    /\ attachResult = NoAttach

\* no tool has been called
InitTools ==
    /\ verbose = FALSE /\ includeState = FALSE /\ mapHist = <<>>
    /\ serialized = NoSerialized /\ ariaResult = NoAria
    /\ walkRun = NoWalkRun /\ climbRun = NoClimbRun
    /\ refArg = 0
    /\ snapshot = NoSnapshot
    /\ resolveResult = NoResult
    /\ axEntries = NoEntries
    /\ tagNext = 0
    /\ mapResult = NoMap

(***************************************************************************)
(* Mutex.acquire (src/unnamed/part_002:286-301) and the handler wrapper of *)
(* registerTool (src/unnamed/part_002:361-389).                            *)
(*                                                                         *)
(* The k-th call of acquire makes a promise p_k that its release resolves  *)
(* and sets #lock to previous.then(() => p_k): that promise is resolved    *)
(* once p_1 .. p_k all are. lock counts the promises chained, so #lock is  *)
(* the chain up to p_lock and the chain up to 0 is Promise.resolve().      *)
(***************************************************************************)
Requests == 1..NumRequests

\* part_002:296 - previous.then(() => p): resolved when every promise of
\* the chain is
ChainResolved(k) == \A j \in 1..k : j \in released

\* part_002:298 - await previous
AdmittedMut(r) == TRUE
Admitted(r) == ChainResolved(req[r].previous)

\* the request is between the return of acquire() and its call of release()
Holding(r) == req[r].at \in {"getContext", "handler", "finally"}

InitMutex ==
    /\ lock = 0
    /\ released = {}
    /\ req = [r \in Requests |-> [at |-> "idle", ticket |-> 0, previous |-> 0,
                                  step |-> 0]]
    /\ trace = <<>>

\* part_002:289-298 - a request arrives; acquire() runs up to its await
Acquire(r) ==
    /\ req[r].at = "idle"
    /\ lock' = lock + 1
    /\ req' = [req EXCEPT ![r] = [at |-> "waiting", ticket |-> lock + 1,
                                  previous |-> lock, step |-> 0]]
    /\ UNCHANGED <<released, trace>>
    /\ UNCHANGED <<pageVars, sessVars, treeVars, toolVars>>

\* part_002:298-299 - the awaited promise is resolved, acquire() returns
\* release
AcquireReturns(r) ==
    /\ req[r].at = "waiting"
    /\ Admitted(r)
    /\ req' = [req EXCEPT ![r].at = "getContext"]
    /\ UNCHANGED <<lock, released, trace>>
    /\ UNCHANGED <<pageVars, sessVars, treeVars, toolVars>>

\* getContext() called before the try block: a rejection skips the finally
GetContextMut(r, ok) ==
    /\ req[r].at = "getContext"
    /\ req' = [req EXCEPT ![r].at = IF ok THEN "handler" ELSE "done"]
    /\ UNCHANGED <<lock, released, trace>>
    /\ UNCHANGED <<pageVars, sessVars, treeVars, toolVars>>

\* part_002:370 - getContext() may reject (no browser)
GetContext(r, ok) ==
    /\ req[r].at = "getContext"
    /\ req' = [req EXCEPT ![r].at = IF ok THEN "handler" ELSE "finally"]
    /\ UNCHANGED <<lock, released, trace>>
    /\ UNCHANGED <<pageVars, sessVars, treeVars, toolVars>>

\* part_002:371-382 - one await of the handler; it may throw
HandlerStep(r, ok) ==
    /\ req[r].at = "handler"
    /\ trace' = Append(trace, r)
    /\ req' = [req EXCEPT ![r].step = @ + 1,
                          ![r].at = IF ok /\ req[r].step + 1 < HandlerSteps
                                    THEN "handler" ELSE "finally"]
    /\ UNCHANGED <<lock, released>>
    /\ UNCHANGED <<pageVars, sessVars, treeVars, toolVars>>

\* part_002:383-385 - finally { release(); }
Release(r) ==
    /\ req[r].at = "finally"
    /\ released' = released \cup {req[r].ticket}
    /\ req' = [req EXCEPT ![r].at = "done"]
    /\ UNCHANGED <<lock, trace>>
    /\ UNCHANGED <<pageVars, sessVars, treeVars, toolVars>>

NextMutex ==
    \/ \E r \in Requests : Acquire(r)
    \/ \E r \in Requests : AcquireReturns(r)
    \/ \E r \in Requests, ok \in BOOLEAN : GetContext(r, ok)
    \/ \E r \in Requests, ok \in BOOLEAN : HandlerStep(r, ok)
    \/ \E r \in Requests : Release(r)

(***************************************************************************)
(* The trees the specifications start from: one path of the component      *)
(* tree, from an element up to the root. hostRun host elements (tag 5)     *)
(* nested in each other, the innermost a button; then authored components  *)
(* with the tags 0, 1, 11, 15 in turn, each followed, when gap = 1, by a   *)
(* fiber that is neither (tag 7, a fragment); then the root (tag 3). One   *)
(* more element of the page, an image, is not rendered by React.           *)
(***************************************************************************)
AuthoredTags == <<0, 1, 11, 15>>

\* memoizedProps of the j-th authored component, as the sequence of its
\* entries in key order: none; a label with the attributes the inspector
\* plugin adds; more props than the summary shows, a long string among
\* them, declared at column 0; a line attribute without a file
SampleProps(j) ==
    CASE j % 4 = 1 ->
           <<[key |-> "label", type |-> "string", value |-> "Sign up"],
             [key |-> "children", type |-> "object", value |-> ""],
             [key |-> "data-inspector-relative-path", type |-> "string",
              value |-> "src/App.tsx"],
             [key |-> "data-inspector-line", type |-> "string", value |-> "12"],
             [key |-> "data-inspector-column", type |-> "string", value |-> "5"]>>
      [] j % 4 = 2 ->
           <<[key |-> "title", type |-> "string",
              value |-> "A title of more than twenty characters"],
             [key |-> "__reactProps$x", type |-> "object", value |-> ""],
             [key |-> "count", type |-> "number", value |-> "3"],
             [key |-> "onClick", type |-> "function", value |-> ""],
             [key |-> "disabled", type |-> "boolean", value |-> "true"],
             [key |-> "data-inspector-relative-path", type |-> "string",
              value |-> "src/Button.tsx"],
             [key |-> "data-inspector-line", type |-> "string", value |-> "7"],
             [key |-> "data-inspector-column", type |-> "string", value |-> "0"]>>
      [] j % 4 = 3 ->
           <<[key |-> "value", type |-> "null", value |-> "null"],
             [key |-> "data-inspector-line", type |-> "string", value |-> "3"]>>
      [] OTHER -> <<>>

\* memoizedState of the j-th authored component: none, a short one, one
\* whose text is at least fifty characters long
SampleState(j) ==
    CASE j % 3 = 1 -> <<"{\"count\":1}">>
      [] j % 3 = 2 ->
           <<"{\"items\":[\"alpha\",\"beta\",\"gamma\",\"delta\",\"epsilon\"]}">>
      [] OTHER -> <<>>

PathLen(hostRun, authored, gap) == hostRun + authored * (1 + gap) + 1

PathFiber(hostRun, authored, gap, i) ==
    LET len == PathLen(hostRun, authored, gap)
        k == i - hostRun - 1
        j == (k \div (1 + gap)) + 1
        links == [tag |-> 0,
                  ret |-> IF i = len THEN 0 ELSE i + 1,
                  child |-> i - 1,
                  sibling |-> 0,
                  elem |-> IF i <= hostRun THEN i ELSE 0,
                  displayName |-> "", typeName |-> "", elementTypeName |-> "",
                  props |-> <<>>, state |-> <<>>]
    IN  IF i <= hostRun
        THEN [links EXCEPT !.tag = 5,
                           !.typeName = IF i = 1 THEN "button" ELSE "div"]
        ELSE IF i = len
        THEN [links EXCEPT !.tag = 3]
        ELSE IF k % (1 + gap) = 1
        THEN [links EXCEPT !.tag = 7]
        ELSE [links EXCEPT
                !.tag = AuthoredTags[((j - 1) % 4) + 1],
                !.displayName = IF j % 3 = 0 THEN "D" \o ToString(j) ELSE "",
                !.typeName = IF j % 2 = 1 THEN "C" \o ToString(j) ELSE "",
                !.elementTypeName = "E" \o ToString(j),
                !.props = SampleProps(j),
                !.state = SampleState(j)]

PathFibers(hostRun, authored, gap) ==
    [i \in 1..PathLen(hostRun, authored, gap) |->
        PathFiber(hostRun, authored, gap, i)]

\* element e <= hostRun is the element of host fiber e, inside element e + 1;
\* element hostRun + 1 is static markup next to the React container
PathDom(hostRun) ==
    [e \in 1..(hostRun + 1) |-> [fiber |-> IF e <= hostRun THEN e ELSE 0]]

\* the accessibility nodes of that page: the root, then one node per
\* element; with ig the platform ignores the generic containers
PathAx(hostRun, ig) ==
    [i \in 1..(hostRun + 2) |->
        IF i = 1
        THEN [node |-> 0, role |-> "RootWebArea", name |-> "App",
              ignored |-> FALSE, childIds |-> <<hostRun + 1, hostRun + 2>>]
        ELSE IF i = hostRun + 2
        THEN [node |-> i - 1, role |-> "img", name |-> "Logo",
              ignored |-> FALSE, childIds |-> <<>>]
        ELSE IF i = 2
        THEN [node |-> 1, role |-> "button", name |-> "Sign up",
              ignored |-> FALSE, childIds |-> <<>>]
        ELSE [node |-> i - 1, role |-> "generic", name |-> "",
              ignored |-> ig, childIds |-> <<i - 1>>]]

\* the page renders the tree of these parameters; no element is marked
Renders(hostRun, authored, gap, ig) ==
    /\ fibers = PathFibers(hostRun, authored, gap)
    /\ dom = PathDom(hostRun)
    /\ ax = PathAx(hostRun, ig)
    /\ heap = <<>> /\ hookObj = NoHookObj
    /\ marks = [e \in 1..(hostRun + 1) |-> NoMark]

(***************************************************************************)
(* The resolver as a function of the tree: the specification SpecFiber     *)
(* draws a tree and applies the resolver to one of its elements.           *)
(***************************************************************************)
InitFiber ==
    /\ AttachedPage
    /\ \E hostRun \in 1..MaxHostRun, authored \in 0..MaxAuthored, gap \in 0..1 :
          Renders(hostRun, authored, gap, FALSE)
    /\ InitTools
    /\ InitMutex

\* the resolver applied to element e
ResolveElement(e) ==
    /\ refArg' = BackendId(gen, e)
    /\ resolveResult' = ComponentOfElement(e)
    /\ UNCHANGED <<verbose, includeState, mapHist, serialized, walkRun, climbRun,
                   ariaResult,
                   snapshot, axEntries, tagNext, mapResult>>
    /\ UNCHANGED <<pageVars, sessVars, treeVars, mutexVars>>

\* the resolver by role and name applied to the role and name of an
\* accessibility node of the page, or to a role no node has
ResolveByRole(role, name) ==
    /\ ariaResult' = FromSnapshot(role, name)
    /\ UNCHANGED <<verbose, includeState, mapHist, serialized, walkRun, climbRun,
                   refArg,
                   snapshot, resolveResult, axEntries, tagNext, mapResult>>
    /\ UNCHANGED <<pageVars, sessVars, treeVars, mutexVars>>

NextFiber == \E e \in Elements : ResolveElement(e)

SpecFiber == InitFiber /\ [][NextFiber]_vars

\* both resolvers applied to one page: the trees of SpecFiber with a
\* short chain of host elements, and those with the longest chain
InitEquiv ==
    /\ AttachedPage
    /\ \E hostRun \in (1..MaxEquivHostRun) \cup {MaxHostRun},
          authored \in 0..MaxAuthored, gap \in 0..1, ig \in BOOLEAN :
          Renders(hostRun, authored, gap, ig)
    /\ InitTools
    /\ InitMutex

\* the role and name a caller reads off a node of the accessibility
\* tree, and a pair no node has
RolesAndNames ==
    {<<ax[i].role, ax[i].name>> : i \in DOMAIN ax} \cup {<<"link", "Home">>}

NextEquiv ==
    \/ \E e \in Elements : ResolveElement(e)
    \/ \E pair \in RolesAndNames : ResolveByRole(pair[1], pair[2])

SpecEquiv == InitEquiv /\ [][NextEquiv]_vars

(***************************************************************************)
(* The component walk run step by step (ReactSession.ts:577-604 and        *)
(* 628-832), for fiber graphs whose links may form cycles. walkRun.stack   *)
(* is the call stack, the innermost call last; a frame is one call of      *)
(* walkFiber or getA11yInfo, or one of their loops. walkRun.ret is the     *)
(* value the last getA11yInfo returned, walkRun.shown the fibers that got  *)
(* a line. pc is "done" once the stack is empty, and "threw" when the      *)
(* engine gives up on a stack or an array that has grown too large.        *)
(***************************************************************************)
Frame(op, fiber, list, idx, waiting) ==
    [op |-> op, fiber |-> fiber, list |-> list, idx |-> idx,
     waiting |-> waiting]

Top == walkRun.stack[Len(walkRun.stack)]
Below == SubSeq(walkRun.stack, 1, Len(walkRun.stack) - 1)
OnTop(op) == walkRun.pc = "running" /\ Top.op = op

\* the run goes on with this stack, or is done when nothing is left of it
Continue(stack) ==
    [walkRun EXCEPT !.stack = stack,
                    !.pc = IF stack = <<>> THEN "done" ELSE "running"]

\* a call: RangeError (maximum call stack size exceeded) when the stack is
\* full; nothing in the page function catches it
Call(stack, frame) ==
    IF Len(stack) >= MaxStack THEN [walkRun EXCEPT !.pc = "threw"]
    ELSE Continue(Append(stack, frame))

OnlyWalkRun ==
    /\ UNCHANGED <<verbose, includeState, mapHist, serialized, climbRun,
                   ariaResult, refArg, snapshot, resolveResult, axEntries,
                   tagNext, mapResult>>
    /\ UNCHANGED <<pageVars, sessVars, treeVars, mutexVars>>

\* ReactSession.ts:814-832 - the walk starts with the loop over the roots
StartWalkRun ==
    /\ walkRun.pc = "none"
    /\ walkRun' = [NoWalkRun EXCEPT
                      !.pc = "running",
                      !.stack = <<Frame("roots", 0, RootFibers, 1, FALSE)>>]
    /\ OnlyWalkRun

\* ReactSession.ts:820-831 - roots.forEach: walkFiber(root.current, ...)
RootsStep ==
    /\ OnTop("roots")
    /\ walkRun' =
         IF Top.idx > Len(Top.list) THEN Continue(Below)
         ELSE Call(Append(Below, [Top EXCEPT !.idx = @ + 1]),
                   Frame("walkFiber", Top.list[Top.idx], <<>>, 0, FALSE))
    /\ OnlyWalkRun

\* ReactSession.ts:633-643, 763-765, 804-806 - walkFiber is entered: a
\* fiber that was processed returns at once; a component and a host
\* element ask getA11yInfo first, any other fiber goes through its children
WalkFiberStep ==
    /\ OnTop("walkFiber")
    /\ LET f == Top.fiber IN
       walkRun' =
         IF f = 0 \/ f \in walkRun.processed THEN Continue(Below)
         ELSE LET entered == [walkRun EXCEPT !.processed = @ \cup {f}]
                  next == IF IsAuthored(fibers[f].tag) \/ fibers[f].tag = 5
                          THEN Call(Append(Below,
                                           Frame("branch", f, <<>>, 0, FALSE)),
                                    Frame("getA11yInfo", f, <<>>, 0, FALSE))
                          ELSE Continue(Append(Below,
                                   Frame("through", fibers[f].child, <<>>, 0,
                                         FALSE)))
              IN  [next EXCEPT !.processed = entered.processed]
    /\ OnlyWalkRun

\* ReactSession.ts:640, 719-751 and 767-784 - with the answer of
\* getA11yInfo: a component and a host element with a semantic role push
\* their line and collect their children; a host element without one goes
\* through its children (796-803)
BranchStep ==
    /\ OnTop("branch")
    /\ LET f == Top.fiber
           info == walkRun.ret
           line == \/ IsAuthored(fibers[f].tag)
                   \/ info # <<>> /\ IsSemanticOrInteractive(info[1].role)
       IN  walkRun' =
             IF line
             THEN [Continue(Append(Below, Frame("collect", fibers[f].child,
                                                <<>>, 0, FALSE)))
                     EXCEPT !.shown = Append(@, f)]
             ELSE Continue(Append(Below, Frame("through", fibers[f].child,
                                               <<>>, 0, FALSE)))
    /\ OnlyWalkRun

\* ReactSession.ts:751-756 and 784-789 -
\*   while (child) { children.push(child); child = child.sibling; }
\* RangeError (invalid array length) once the array is full
CollectStep ==
    /\ OnTop("collect")
    /\ walkRun' =
         IF Top.fiber = 0
         THEN Continue(Append(Below, Frame("forEach", 0, Top.list, 1, FALSE)))
         ELSE IF Len(Top.list) >= MaxCollected
         THEN [walkRun EXCEPT !.pc = "threw"]
         ELSE Continue(Append(Below,
                  [Top EXCEPT !.list = Append(@, Top.fiber),
                              !.fiber = fibers[Top.fiber].sibling]))
    /\ OnlyWalkRun

\* ReactSession.ts:758-762 and 791-795 - children.forEach(walkFiber)
ForEachStep ==
    /\ OnTop("forEach")
    /\ walkRun' =
         IF Top.idx > Len(Top.list) THEN Continue(Below)
         ELSE Call(Append(Below, [Top EXCEPT !.idx = @ + 1]),
                   Frame("walkFiber", Top.list[Top.idx], <<>>, 0, FALSE))
    /\ OnlyWalkRun

\* ReactSession.ts:798-802 and 806-810 -
\*   while (child) { walkFiber(child, ...); child = child.sibling; }
ThroughStep ==
    /\ OnTop("through")
    /\ walkRun' =
         IF Top.waiting
         THEN Continue(Append(Below,
                  [Top EXCEPT !.fiber = fibers[Top.fiber].sibling,
                              !.waiting = FALSE]))
         ELSE IF Top.fiber = 0 THEN Continue(Below)
         ELSE Call(Append(Below, [Top EXCEPT !.waiting = TRUE]),
                   Frame("walkFiber", Top.fiber, <<>>, 0, FALSE))
    /\ OnlyWalkRun

\* ReactSession.ts:577-603 - getA11yInfo is entered: a marked host element
\* answers, a component searches its children, any other fiber gives null
GetA11yInfoStep ==
    /\ OnTop("getA11yInfo")
    /\ LET f == Top.fiber
           fiber == fibers[f]
       IN  walkRun' =
             IF fiber.tag = 5 /\ fiber.elem # 0 /\ marks[fiber.elem].tagged
             THEN [Continue(Below) EXCEPT !.ret = <<marks[fiber.elem]>>]
             ELSE IF IsAuthored(fiber.tag)
             THEN Continue(Append(Below, Frame("search", fiber.child, <<>>, 0,
                                               FALSE)))
             ELSE [Continue(Below) EXCEPT !.ret = <<>>]
    /\ OnlyWalkRun

\* ReactSession.ts:592-602 -
\*   while (child) { const info = getA11yInfo(child);
\*                   if (info) return info; child = child.sibling; }
\*   return null;
SearchStep ==
    /\ OnTop("search")
    /\ walkRun' =
         IF Top.waiting
         THEN (IF walkRun.ret # <<>> THEN Continue(Below)
               ELSE Continue(Append(Below,
                        [Top EXCEPT !.fiber = fibers[Top.fiber].sibling,
                                    !.waiting = FALSE])))
         ELSE IF Top.fiber = 0
         THEN [Continue(Below) EXCEPT !.ret = <<>>]
         ELSE Call(Append(Below, [Top EXCEPT !.waiting = TRUE]),
                   Frame("getA11yInfo", Top.fiber, <<>>, 0, FALSE))
    /\ OnlyWalkRun

\* the fiber graphs of the walk run step by step: fiber 1 is the root, the
\* other fibers are components and host elements, and every child and
\* sibling link points at any fiber or at none, so that links form cycles
\* and fibers are reached along two paths
GraphKinds == {"component", "host"}

GraphFibers(kind, child, sibling) ==
    [i \in 1..(Len(kind) + 1) |->
        [tag |-> IF i = 1 THEN 3
                 ELSE IF kind[i - 1] = "component" THEN 0 ELSE 5,
         ret |-> 0,
         child |-> child[i],
         sibling |-> IF i = 1 THEN 0 ELSE sibling[i - 1],
         elem |-> IF i > 1 /\ kind[i - 1] = "host" THEN i - 1 ELSE 0,
         displayName |-> "",
         typeName |-> IF i = 1 THEN ""
                      ELSE IF kind[i - 1] = "host" THEN "button"
                      ELSE "C" \o ToString(i),
         elementTypeName |-> "", props |-> <<>>, state |-> <<>>]]

\* element e is the element of fiber e + 1 when that fiber is a host
\* element; every element has a button as its accessibility node
GraphDom(kind) ==
    [e \in 1..Len(kind) |->
        [fiber |-> IF kind[e] = "host" THEN e + 1 ELSE 0]]

GraphAx(kind) ==
    [i \in 1..(Len(kind) + 1) |->
        IF i = 1
        THEN [node |-> 0, role |-> "RootWebArea", name |-> "App",
              ignored |-> FALSE,
              childIds |-> [k \in 1..Len(kind) |-> k + 1]]
        ELSE [node |-> i - 1, role |-> "button", name |-> "Sign up",
              ignored |-> FALSE, childIds |-> <<>>]]

InitCycle ==
    /\ AttachedPage
    /\ InitTools
    /\ InitMutex
    /\ heap = <<>> /\ hookObj = NoHookObj
    /\ \E n \in 1..MaxCycleFibers :
          \E kind \in [1..n -> GraphKinds],
             child \in [1..(n + 1) -> 0..(n + 1)],
             sibling \in [1..n -> 0..(n + 1)],
             marked \in BOOLEAN :
             /\ fibers = GraphFibers(kind, child, sibling)
             /\ dom = GraphDom(kind)
             /\ ax = GraphAx(kind)
             /\ marks = [e \in 1..n |->
                           IF marked /\ kind[e] = "host"
                           THEN [tagged |-> TRUE, role |-> "button",
                                 name |-> "Sign up",
                                 backendId |-> BackendId(1, e)]
                           ELSE NoMark]

NextCycle ==
    \/ StartWalkRun
    \/ RootsStep
    \/ WalkFiberStep
    \/ BranchStep
    \/ CollectStep
    \/ ForEachStep
    \/ ThroughStep
    \/ GetA11yInfoStep
    \/ SearchStep

\* the page function runs on the page's one thread: a step that can be
\* taken is taken
SpecCycle == InitCycle /\ [][NextCycle]_vars /\ WF_vars(NextCycle)

(***************************************************************************)
(* The two upward loops of the resolver by backend id run step by step     *)
(* (McpResponse.ts:940-952 and 1019-1034), for fiber graphs whose return   *)
(* links may form cycles. climbRun.fiber is the loop variable (fiber, then *)
(* current), climbRun.left what is left of maxSteps, then of maxOwners.    *)
(***************************************************************************)
OnlyClimbRun ==
    /\ UNCHANGED <<verbose, includeState, mapHist, serialized, walkRun,
                   ariaResult, refArg, snapshot, resolveResult, axEntries,
                   tagNext, mapResult>>
    /\ UNCHANGED <<pageVars, sessVars, treeVars, mutexVars>>

\* McpResponse.ts:940-941 - let fiber = targetElement[fiberKey];
\*                          let maxSteps = 20;
StartClimb(e) ==
    /\ climbRun.pc = "none"
    /\ FiberKey(e) # 0
    /\ climbRun' = [pc |-> "search", fiber |-> FiberKey(e), left |-> MaxSteps,
                    owners |-> <<>>]
    /\ OnlyClimbRun

\* McpResponse.ts:942-952, 1021-1022 - one turn of
\*   while (fiber && maxSteps > 0) { maxSteps--; if authored break;
\*                                   fiber = fiber.return; }
\* and, when the loop is left, if (!fiber) return ...; current =
\* fiber.return; maxOwners = 10
FindStep ==
    /\ climbRun.pc = "search"
    /\ LET fiber == climbRun.fiber
           Found(f) == IF f = 0 THEN [climbRun EXCEPT !.pc = "done",
                                                      !.fiber = 0]
                       ELSE [climbRun EXCEPT !.pc = "owners",
                                             !.fiber = fibers[f].ret,
                                             !.left = MaxOwners]
       IN  climbRun' =
             IF fiber = 0 \/ climbRun.left <= 0 THEN Found(fiber)
             ELSE IF IsAuthored(fibers[fiber].tag) THEN Found(fiber)
             ELSE [climbRun EXCEPT !.fiber = fibers[fiber].ret,
                                   !.left = @ - 1]
    /\ OnlyClimbRun

\* McpResponse.ts:1023-1034 - one turn of
\*   while (current && maxOwners > 0) { if authored { push; maxOwners--; }
\*                                      current = current.return; }
OwnersStep ==
    /\ climbRun.pc = "owners"
    /\ LET current == climbRun.fiber IN
       climbRun' =
         IF current = 0 \/ climbRun.left <= 0
         THEN [climbRun EXCEPT !.pc = "done"]
         ELSE IF IsAuthored(fibers[current].tag)
         THEN [climbRun EXCEPT
                 !.owners = Append(@,
                     [name |-> GetComponentName(fibers[current]),
                      type |-> GetComponentType(fibers[current].tag),
                      source |-> ResolverExtractSource(fibers[current].props)]),
                 !.left = @ - 1,
                 !.fiber = fibers[current].ret]
         ELSE [climbRun EXCEPT !.fiber = fibers[current].ret]
    /\ OnlyClimbRun

\* the fiber graphs of the upward loops: fiber 1 is the host fiber of
\* element 1, the other fibers are components, host elements and a root,
\* and every return link points at any fiber or at none
ClimbTags == {0, 3, 5}

ClimbFibers(tags, ret) ==
    [i \in 1..Len(ret) |->
        [tag |-> IF i = 1 THEN 5 ELSE tags[i - 1],
         ret |-> ret[i], child |-> 0, sibling |-> 0,
         elem |-> IF i = 1 THEN 1 ELSE 0,
         displayName |-> "",
         typeName |-> IF i = 1 THEN "button" ELSE "C" \o ToString(i),
         elementTypeName |-> "", props |-> <<>>, state |-> <<>>]]

InitClimb ==
    /\ AttachedPage
    /\ InitTools
    /\ InitMutex
    /\ heap = <<>> /\ hookObj = NoHookObj
    /\ \E n \in 1..MaxClimbFibers :
          \E tags \in [1..(n - 1) -> ClimbTags], ret \in [1..n -> 0..n] :
             fibers = ClimbFibers(tags, ret)
    /\ dom = <<[fiber |-> 1]>>
    /\ ax = <<[node |-> 0, role |-> "RootWebArea", name |-> "App",
               ignored |-> FALSE, childIds |-> <<2>>],
              [node |-> 1, role |-> "button", name |-> "Sign up",
               ignored |-> FALSE, childIds |-> <<>>]>>
    /\ marks = <<NoMark>>

NextClimb ==
    \/ \E e \in Elements : StartClimb(e)
    \/ FindStep
    \/ OwnersStep

\* the function runs on the page's one thread: a step that can be taken is
\* taken
SpecClimb == InitClimb /\ [][NextClimb]_vars /\ WF_vars(NextClimb)

(***************************************************************************)
(* The bootstrap patch of the registration hook (ReactSession.ts:55-92),   *)
(* evaluated in a document that has a hook already. hookObj is that hook:  *)
(*   renderersField, renderers   hook.renderers exists; its entries        *)
(*   fiberRootsField, fieldRoots hook._fiberRoots exists; its entries      *)
(*   store, ownRoots             where the hook that was there keeps the   *)
(*                               roots it is told of: nowhere, in a store  *)
(*                               of its own behind its getFiberRoots, or   *)
(*                               in its _fiberRoots field                  *)
(*   reads                       the store hook.getFiberRoots reads now    *)
(*   injectBase, onCommitBase    the hook that was there has the handler   *)
(*   patches, nextId             patches evaluated; nextId of the first    *)
(*   baseNextId                  the id the handler that was there gives   *)
(*   injected, known, last       what inject was called with; what the     *)
(*                               hook returned before the first patch; the *)
(*                               last call and whether it reached the      *)
(*                               handler that was there                    *)
(***************************************************************************)
RendererNames == {"rA", "rB"}
RootNames == {"rootA"}
RendererIds == 1..2

\* hook.getFiberRoots(id), the empty set when the hook has no such function
GetFiberRootsOf(h, id) ==
    CASE h.reads = "own" -> {pair[2] : pair \in {q \in h.ownRoots : q[1] = id}}
      [] h.reads = "field" ->
             {pair[2] : pair \in {q \in h.fieldRoots : q[1] = id}}
      [] OTHER -> {}

\* ReactSession.ts:73 - hook.getFiberRoots = id => fiberRootsMap.get(id) ||
\* new Set(): whatever was there, the hook reads the map from now on
ReadsAfterPatch(h) == "field"

\* ReactSession.ts:56-91 - initReactHook with existing set
PatchedHook(h) ==
    [h EXCEPT
       !.renderersField = TRUE,
       !.fiberRootsField = TRUE,
       !.fieldRoots = IF h.fiberRootsField THEN @ ELSE {},
       !.reads = ReadsAfterPatch(h),
       !.nextId = IF h.patches = 0 THEN Cardinality(h.renderers) + 1 ELSE @,
       !.patches = @ + 1,
       !.known = IF h.patches = 0
                 THEN [renderers |-> h.renderers,
                       roots |-> [id \in RendererIds |-> GetFiberRootsOf(h, id)]]
                 ELSE @]

\* ReactSession.ts:74-78 - hook.inject(renderer): the id comes from the
\* handler that was there, through every patch above it, or from nextId of
\* the first patch; every patch sets renderers[id]. The handler that was
\* there counts on and sets the entry in its own renderers, if it has them
InjectedHook(h, renderer) ==
    LET id == IF h.injectBase THEN h.baseNextId ELSE h.nextId
        sets == h.patches >= 1 \/ (h.injectBase /\ h.renderersField)
    IN  [h EXCEPT
           !.renderers = IF sets THEN @ \cup {<<id, renderer>>} ELSE @,
           !.baseNextId = IF h.injectBase THEN @ + 1 ELSE @,
           !.nextId = IF h.injectBase \/ h.patches = 0 THEN @ ELSE @ + 1,
           !.injected = @ \cup {renderer},
           !.last = [call |-> "inject", base |-> h.injectBase]]

\* ReactSession.ts:79-89 - hook.onCommitFiberRoot(id, root): every patch
\* adds the root to the map and calls the handler below it; the handler
\* that was there keeps the root where it keeps its roots
CommittedHook(h, id, root) ==
    [h EXCEPT
       !.fieldRoots = IF h.patches >= 1 \/ (h.onCommitBase /\ h.store = "field")
                      THEN @ \cup {<<id, root>>} ELSE @,
       !.ownRoots = IF h.onCommitBase /\ h.store = "own"
                    THEN @ \cup {<<id, root>>} ELSE @,
       !.last = [call |-> "commit", base |-> h.onCommitBase]]

OnlyHookObj ==
    /\ UNCHANGED <<fibers, dom, ax, heap>>
    /\ UNCHANGED <<pageVars, sessVars, toolVars, mutexVars>>

\* ReactSession.ts:98 and 127 - eval(bootstrap), in the preload script or
\* in the runtime re-install
Patch ==
    /\ hookObj.patches < MaxPatches
    /\ hookObj' = PatchedHook(hookObj)
    /\ OnlyHookObj

\* the React runtime registers a renderer
HookInject(renderer) ==
    /\ hookObj.patches >= 1 \/ hookObj.injectBase
    /\ renderer \notin hookObj.injected
    /\ hookObj' = InjectedHook(hookObj, renderer)
    /\ OnlyHookObj

\* the React runtime commits a root
HookCommit(id, root) ==
    /\ hookObj.patches >= 1 \/ hookObj.onCommitBase
    /\ hookObj' = CommittedHook(hookObj, id, root)
    /\ OnlyHookObj

\* the hooks a document may have: with or without each handler, with or
\* without a renderers map, keeping roots nowhere, in a store of their own
\* or in _fiberRoots, and knowing a renderer and a root already or not
ExistingHooks ==
    {[kind |-> "hook",
      renderersField |-> rf,
      renderers |-> IF rf /\ one THEN {<<1, "r0">>} ELSE {},
      fiberRootsField |-> store = "field",
      fieldRoots |-> IF store = "field" /\ root THEN {<<1, "root0">>} ELSE {},
      store |-> store,
      ownRoots |-> IF store = "own" /\ root THEN {<<1, "root0">>} ELSE {},
      reads |-> store,
      injectBase |-> ib,
      onCommitBase |-> cb,
      patches |-> 0,
      nextId |-> 0,
      baseNextId |-> IF rf /\ one THEN 2 ELSE 1,
      injected |-> {},
      known |-> [renderers |-> {}, roots |-> [id \in RendererIds |-> {}]],
      last |-> [call |-> "none", base |-> FALSE]] :
        rf \in BOOLEAN, one \in BOOLEAN, root \in BOOLEAN, ib \in BOOLEAN,
        cb \in BOOLEAN, store \in {"none", "own", "field"}}

InitPatch ==
    /\ AttachedPage
    /\ fibers = PathFibers(1, 1, 0)
    /\ dom = PathDom(1)
    /\ ax = PathAx(1, FALSE)
    /\ marks = [e \in 1..2 |-> NoMark]
    /\ heap = <<>>
    /\ hookObj \in ExistingHooks
    /\ InitTools
    /\ InitMutex

NextPatch ==
    \/ Patch
    \/ \E renderer \in RendererNames : HookInject(renderer)
    \/ \E id \in RendererIds, root \in RootNames : HookCommit(id, root)

SpecPatch == InitPatch /\ [][NextPatch]_vars

\* the mutex specification: requests on an attached page
InitMutexSpec ==
    /\ AttachedPage
    /\ Renders(1, 1, 0, FALSE)
    /\ InitTools
    /\ InitMutex

SpecMutex == InitMutexSpec /\ [][NextMutex]_vars

\* every handler terminates: a continuation that can run is run (the event
\* loop runs every job it has queued), so an await that is resolved
\* returns, getContext and every await of the handler settle, and the
\* finally block runs; requests arrive or not
HandlersTerminate ==
    \A r \in Requests :
        /\ WF_vars(AcquireReturns(r))
        /\ WF_vars(\E ok \in BOOLEAN : GetContext(r, ok))
        /\ WF_vars(\E ok \in BOOLEAN : HandlerStep(r, ok))
        /\ WF_vars(Release(r))

SpecMutexFair == InitMutexSpec /\ [][NextMutex]_vars /\ HandlersTerminate

(***************************************************************************)
(* The walk as a function of the page: the specification SpecWalk draws a  *)
(* component tree with siblings, the elements the tagging loop has marked  *)
(* and the arguments, and evaluates the walk of getComponentMap.           *)
(*                                                                         *)
(* The trees of n fibers under their roots are a parent function over      *)
(* 1..n, the fibers numbered in first-child-then-sibling pre-order, root   *)
(* after root (0 stands for a root), with a kind for every fiber: an       *)
(* authored component, a host element with a semantic role, a host element *)
(* that is a generic container, or a fragment.                             *)
(***************************************************************************)
WalkKinds == {"component", "semantic", "generic", "fragment"}

\* fiber i and the fibers above it
RECURSIVE UpSet(_, _)
UpSet(parent, i) == IF i = 0 THEN {} ELSE {i} \cup UpSet(parent, parent[i])

\* the fibers just under a root: a root has one child, the element that
\* was rendered into it
Tops(parent) == {i \in DOMAIN parent : parent[i] = 0}

\* the parent functions that number the fibers of r trees in pre-order: the
\* parent of a fiber is the fiber just before it or one of the fibers above
\* that one, or the next root
Shapes(n, r) ==
    {parent \in [1..n -> 0..(n - 1)] :
        /\ parent[1] = 0
        /\ \A i \in 2..n : parent[i] \in UpSet(parent, i - 1) \cup {0}
        /\ Cardinality(Tops(parent)) = r}

\* the elements of a set of numbers in increasing order
RECURSIVE Ascending(_)
Ascending(S) ==
    IF S = {} THEN <<>>
    ELSE LET m == CHOOSE x \in S : \A y \in S : x <= y
         IN  <<m>> \o Ascending(S \ {m})

First(S) == IF S = {} THEN 0 ELSE Ascending(S)[1]

IsHostKind(k) == k \in {"semantic", "generic"}

\* the element of host fiber i: the hosts are numbered in document order
ElemOf(kind, i) ==
    IF IsHostKind(kind[i])
    THEN Cardinality({j \in 1..i : IsHostKind(kind[j])})
    ELSE 0

\* the nearest host fiber above fiber i, 0 when there is none
RECURSIVE HostAbove(_, _, _)
HostAbove(parent, kind, i) ==
    IF parent[i] = 0 THEN 0
    ELSE IF IsHostKind(kind[parent[i]]) THEN parent[i]
    ELSE HostAbove(parent, kind, parent[i])

\* the fibers of the trees, then their roots in the order they were
\* committed
TreeFibers(parent, kind) ==
    LET n == Len(kind)
        tops == Ascending(Tops(parent))
    IN
    [i \in 1..(n + Len(tops)) |->
        IF i > n
        THEN [tag |-> 3, ret |-> 0, child |-> tops[i - n], sibling |-> 0,
              elem |-> 0,
              displayName |-> "", typeName |-> "", elementTypeName |-> "",
              props |-> <<>>, state |-> <<>>]
        ELSE [tag |-> CASE kind[i] = "component" -> AuthoredTags[((i - 1) % 4) + 1]
                        [] IsHostKind(kind[i]) -> 5
                        [] OTHER -> 7,
              ret |-> IF parent[i] = 0
                      THEN n + Cardinality({j \in Tops(parent) : j <= i})
                      ELSE parent[i],
              child |-> First({j \in 1..n : parent[j] = i}),
              sibling |-> IF parent[i] = 0 THEN 0
                          ELSE First({j \in (i + 1)..n : parent[j] = parent[i]}),
              elem |-> ElemOf(kind, i),
              displayName |-> "",
              typeName |-> CASE kind[i] = "component" -> "C" \o ToString(i)
                             [] kind[i] = "semantic" -> "button"
                             [] kind[i] = "generic" -> "div"
                             [] OTHER -> "",
              elementTypeName |-> "",
              props |-> IF kind[i] = "component" THEN SampleProps(i) ELSE <<>>,
              state |-> IF kind[i] = "component" THEN SampleState(i) ELSE <<>>]]

\* the host fibers of the tree, in document order
HostsOf(kind) == Ascending({i \in 1..Len(kind) : IsHostKind(kind[i])})

\* one element per host fiber; with extra, one more element that React did
\* not render (markup set as inner HTML), inside the last element
TreeDom(kind, extra) ==
    LET hosts == HostsOf(kind) IN
    [e \in 1..(Len(hosts) + (IF extra THEN 1 ELSE 0)) |->
        [fiber |-> IF e <= Len(hosts) THEN hosts[e] ELSE 0]]

\* the accessibility nodes: the root, then one node per element, nested as
\* the elements are
TreeAx(parent, kind, extra) ==
    LET hosts == HostsOf(kind)
        h == Len(hosts)
        Inside(above) ==
            [k \in 1..Cardinality({i \in 1..h :
                                     HostAbove(parent, kind, hosts[i]) = above}) |->
                Ascending({i \in 1..h :
                             HostAbove(parent, kind, hosts[i]) = above})[k] + 1]
    IN  [i \in 1..(h + 1 + (IF extra THEN 1 ELSE 0)) |->
            IF i = 1
            THEN [node |-> 0, role |-> "RootWebArea", name |-> "App",
                  ignored |-> FALSE, childIds |-> Inside(0)]
            ELSE IF i = h + 2
            THEN [node |-> i - 1, role |-> "img", name |-> "Logo",
                  ignored |-> FALSE, childIds |-> <<>>]
            ELSE [node |-> i - 1,
                  role |-> IF kind[hosts[i - 1]] = "semantic" THEN "button"
                                                              ELSE "generic",
                  name |-> IF kind[hosts[i - 1]] = "semantic"
                           THEN "B" \o ToString(i - 1) ELSE "",
                  ignored |-> FALSE,
                  childIds |-> Inside(hosts[i - 1])
                               \o (IF extra /\ i = h + 1 THEN <<h + 2>>
                                                          ELSE <<>>)]]

\* the markers the tagging loop leaves on the elements of the set tagged
\* (ReactSession.ts:479-484)
TaggedMarks(tagged) ==
    [e \in Elements |->
        IF e \in tagged
        THEN [tagged |-> TRUE, role |-> ax[e + 1].role, name |-> ax[e + 1].name,
              backendId |-> BackendId(gen, e)]
        ELSE NoMark]

\* getComponentMap has read the snapshot of the page and has tagged the
\* elements it could resolve; the walk is about to be evaluated
InitWalk ==
    /\ gen = 1 /\ cspBypass = TRUE /\ preloadScripts = 1 /\ hook = TRUE
    /\ renderers = {1} /\ fiberRoots = {1} /\ reactPresent = TRUE
    /\ reactLoaded = TRUE /\ rendered = TRUE /\ painted = TRUE /\ navs = 0
    /\ backendInjected = TRUE /\ tool = "get_component_map" /\ pc = "walk"
    /\ steps = <<>> /\ calls = 1 /\ startGen = 1 /\ log = <<>>
    /\ attachResult = NoAttach
    /\ \E r \in 1..MaxWalkRoots : \E n \in r..(MaxWalkFibers - r) :
          \E parent \in Shapes(n, r), kind \in [1..n -> WalkKinds],
             extra \in BOOLEAN :
             /\ extra => HostsOf(kind) # <<>>
             /\ fibers = TreeFibers(parent, kind)
             /\ dom = TreeDom(kind, extra)
             /\ ax = TreeAx(parent, kind, extra)
    /\ heap = <<>> /\ hookObj = NoHookObj
    /\ verbose = TRUE
    /\ refArg = 0 /\ snapshot = NoSnapshot /\ resolveResult = NoResult
    /\ serialized = NoSerialized /\ ariaResult = NoAria
    /\ walkRun = NoWalkRun /\ climbRun = NoClimbRun
    /\ LET root == TakeSnapshotResult(TRUE).root IN
           axEntries = [map |-> BuildAxMap(root),
                        hierarchy |-> BuildA11yHierarchy(root)]
    /\ tagNext = Len(axEntries.map) + 1
    /\ mapResult = NoMap
    /\ InitMutex
    /\ includeState \in BOOLEAN
    /\ \E tagged \in SUBSET {e \in Elements :
                                IsSemanticOrInteractive(ax[e + 1].role)} :
          /\ marks = TaggedMarks(tagged)
          /\ mapHist = <<[args |-> <<TRUE, includeState>>,
                          attempted |-> Attempts(axEntries.map,
                                                 Len(axEntries.map) + 1),
                          tagged |-> {BackendId(gen, e) : e \in tagged},
                          result |-> NoMap]>>

NextWalk == \E ok \in BOOLEAN : Walk(ok)

SpecWalk == InitWalk /\ [][NextWalk]_vars

(***************************************************************************)
(* The snapshot and the maps as functions of the accessibility tree: the   *)
(* specification SpecSnap draws a tree of accessibility nodes, any of them *)
(* ignored by the platform and at most one without a backend id, and runs  *)
(* take_snapshot or getComponentMap from the point where the tree is read. *)
(***************************************************************************)
\* node i stands for element i - 1 (node 1 for the document); the nodes at
\* even places are buttons, the others generic containers
SnapAx(parent, ignored, noId) ==
    [i \in 1..Len(parent) |->
        [node |-> IF i = noId THEN -1 ELSE i - 1,
         role |-> IF i = 1 THEN "RootWebArea"
                  ELSE IF i % 2 = 0 THEN "button" ELSE "generic",
         name |-> "N" \o ToString(i),
         ignored |-> i \in ignored,
         childIds |-> Ascending({j \in 1..Len(parent) : parent[j] = i})]]

\* React renders one component with one host element per node, side by side
SnapKinds(n) ==
    [i \in 1..n |-> IF i = 1 THEN "component"
                    ELSE IF i % 2 = 0 THEN "semantic" ELSE "generic"]

InitSnap ==
    /\ gen = 1 /\ cspBypass = TRUE /\ preloadScripts = 1 /\ hook = TRUE
    /\ renderers = {1} /\ fiberRoots = {1} /\ reactPresent = TRUE
    /\ reactLoaded = TRUE /\ rendered = TRUE /\ painted = TRUE /\ navs = 0
    /\ backendInjected = TRUE /\ pc = "getFullAXTree"
    /\ steps = <<>> /\ calls = 1 /\ startGen = 1 /\ log = <<>>
    /\ attachResult = NoAttach
    /\ \E n \in 1..MaxAxNodes :
          \E parent \in Shapes(n, 1), ignored \in SUBSET (1..n),
             noId \in {0} \cup 2..n :
             /\ ax = SnapAx(parent, ignored, noId)
             /\ fibers = TreeFibers([i \in 1..n |-> IF i = 1 THEN 0 ELSE 1],
                                    SnapKinds(n))
             /\ dom = TreeDom(SnapKinds(n), FALSE)
    /\ heap = <<>> /\ hookObj = NoHookObj
    /\ marks = [e \in Elements |-> NoMark]
    /\ verbose \in BOOLEAN
    /\ includeState = FALSE
    /\ tool \in {"take_snapshot", "get_component_map"}
    /\ mapHist = IF tool = "get_component_map"
                 THEN <<[args |-> <<verbose, FALSE>>, attempted |-> <<>>,
                         tagged |-> {},
                         result |-> NoMap]>>
                 ELSE <<>>
    /\ serialized = NoSerialized /\ ariaResult = NoAria
    /\ walkRun = NoWalkRun /\ climbRun = NoClimbRun
    /\ refArg = 0 /\ snapshot = NoSnapshot /\ resolveResult = NoResult
    /\ axEntries = NoEntries /\ tagNext = 0 /\ mapResult = NoMap
    /\ InitMutex

NextSnap ==
    \/ \E ok \in BOOLEAN : SnapshotTree(ok)
    \/ \E ok \in BOOLEAN : MapSnapshot(ok)
    \/ \E ok \in BOOLEAN : TagEntry(ok)
    \/ \E ok \in BOOLEAN : Walk(ok)

SpecSnap == InitSnap /\ [][NextSnap]_vars

(***************************************************************************)
(* The session specifications: tool requests, one at a time, on a page     *)
(* that loads, renders and navigates on its own.                           *)
(***************************************************************************)
InitPage ==
    /\ gen = 1
    /\ cspBypass = FALSE
    /\ preloadScripts = 0
    /\ hook = FALSE
    /\ renderers = {}
    /\ fiberRoots = {}
    /\ reactPresent \in BOOLEAN
    /\ reactLoaded \in {FALSE, reactPresent}
    /\ rendered \in {FALSE, reactLoaded}
    /\ painted \in BOOLEAN
    /\ navs = 0

InitSession ==
    /\ backendInjected = FALSE
    /\ tool = "none"
    /\ pc = "idle"
    /\ steps = <<>>
    /\ attachResult = NoAttach
    /\ calls = 0
    /\ startGen = 1
    /\ log = <<>>

\* the trees of the session specifications
InitTree ==
    \E hostRun \in 1..MaxSessionHostRun, authored \in 0..MaxSessionAuthored,
       ig \in BOOLEAN :
          Renders(hostRun, authored, 0, ig)

EnsureInjectedNext ==
    \/ \E ok \in BOOLEAN : SetBypassCSP(ok)
    \/ \E ok \in BOOLEAN : EvaluateOnNewDocument(ok)
    \/ \E ok \in BOOLEAN : Check1(ok)
    \/ \E ok \in BOOLEAN : RuntimeInject(ok)
    \/ \E ok \in BOOLEAN : Check2(ok)
    \/ \E ok, replaced \in BOOLEAN : Reload(ok, replaced)
    \/ \E ok \in BOOLEAN : Check3(ok)

PageNext == ReactInit \/ ReactCommit \/ Paint \/ Navigate

\* ensure_react_attached requests
Init == InitPage /\ InitSession /\ Renders(1, 1, 0, FALSE) /\ InitTools /\ InitMutex

Next ==
    \/ StartAttach
    \/ EnsureInjectedNext
    \/ \E ok \in BOOLEAN : ListRenderers(ok)
    \/ Respond
    \/ PageNext

Spec == Init /\ [][Next]_vars

\* take_snapshot and get_react_component_from_backend_node_id requests, on
\* a page with a button in a container under one component and an image
\* outside React
InitResolve ==
    /\ InitPage /\ InitSession
    /\ \E ig \in BOOLEAN : Renders(2, 1, 0, ig)
    /\ InitTools /\ InitMutex

NextResolve ==
    \/ \E v \in BOOLEAN : StartSnapshot(v)
    \/ \E id \in IdsOf(snapshot.root) : StartResolver(id)
    \/ EnsureInjectedNext
    \/ \E ok \in BOOLEAN : ListRenderers(ok)
    \/ \E ok \in BOOLEAN : AxEnable(ok)
    \/ \E ok \in BOOLEAN : SnapshotTree(ok)
    \/ \E ok \in BOOLEAN : DomEnable(ok)
    \/ \E ok \in BOOLEAN : GetDocument(ok)
    \/ \E outcome \in {"object", "noObject", "rejected"} : ResolveNode(outcome)
    \/ \E ok \in BOOLEAN : CallFunctionOn(ok)
    \/ PageNext

SpecResolve == InitResolve /\ [][NextResolve]_vars

\* getComponentMap requests
InitMap == InitPage /\ InitSession /\ InitTree /\ InitTools /\ InitMutex

NextMap ==
    \/ \E v, s \in BOOLEAN : StartMap(v, s, MaxMapCalls)
    \/ EnsureInjectedNext
    \/ \E ok \in BOOLEAN : AxEnable(ok)
    \/ \E ok \in BOOLEAN : MapSnapshot(ok)
    \/ \E ok \in BOOLEAN : TagEntry(ok)
    \/ \E ok \in BOOLEAN : Walk(ok)
    \/ PageNext

SpecMap == InitMap /\ [][NextMap]_vars

\* getComponentMap requests on a page that loads, renders and paints while
\* the requests run; every protocol call of the request succeeds but tagging
InitFrame ==
    /\ InitPage /\ InitSession
    /\ \E ig \in BOOLEAN : Renders(1, 1, 0, ig)
    /\ InitTools /\ InitMutex

NextFrame ==
    \/ \E v \in BOOLEAN : StartMap(v, FALSE, MaxMapCalls)
    \/ EnsureInjectedNext
    \/ AxEnable(TRUE)
    \/ MapSnapshot(TRUE)
    \/ \E ok \in BOOLEAN : TagEntry(ok)
    \/ Walk(TRUE)
    \/ PageNext

SpecFrame == InitFrame /\ [][NextFrame]_vars

(***************************************************************************)
(* Claims about ensure_react_attached.                                     *)
(***************************************************************************)
IsPrefix(s, t) == Len(s) <= Len(t) /\ \A i \in 1..Len(s) : s[i] = t[i]

\* the runs of ensureBackendInjected the bounded sequence allows: install
\* the pre-load script, check, re-install, check, reload, re-check
InstallPrefix == <<"setBypassCSP", "evaluateOnNewDocument">>
BoundedRuns ==
    {InstallPrefix \o <<c1>> : c1 \in {"check:renderers", "check:failed"}}
    \cup {InstallPrefix \o <<"check:none", "runtimeInject", c2>> :
            c2 \in {"check:renderers", "check:failed"}}
    \cup {InstallPrefix \o <<"check:none", "runtimeInject", "check:none",
                             "reload", c3>> :
            c3 \in {"check:renderers", "check:none", "check:failed"}}

\* C1: within one invocation of ensureBackendInjected the steps run once
\* each in the order install, check, re-install, check, reload, re-check;
\* the page is reloaded at most once, and only after the first and the
\* second check both found no renderer; nothing loops back.
C1_BoundedSequence == \E run \in BoundedRuns : IsPrefix(steps, run)

\* C1 witness: an invocation went through the reload and the re-check
C1_Witness ==
    /\ Len(steps) = 7
    /\ steps[6] = "reload"
    /\ steps[7] = "check:renderers"

Attach(i) == log[i].tool = "ensure_react_attached"
ReturnedAttached(i) ==
    /\ ~log[i].threw
    /\ log[i].attach.kind = "returned"
    /\ log[i].attach.attached

\* two ensure_react_attached calls in a row, no navigation between them
InARow(i) ==
    /\ i \in 1..(Len(log) - 1)
    /\ Attach(i) /\ Attach(i + 1)
    /\ log[i].navs = log[i + 1].navs

C3_NoRendererNotAttached ==
    \A i \in 1..Len(log) :
        (Attach(i) /\ ~reactPresent /\ ~log[i].threw) =>
            /\ ~log[i].attach.attached
            /\ log[i].attach.renderers = {}

\* C4: attach() never throws; a failing step gives attached=false and a
\* message.
C4_NeverThrows ==
    \A i \in 1..Len(log) :
        Attach(i) =>
            /\ ~log[i].threw
            /\ log[i].attach.kind = "returned"
            /\ (~log[i].attach.attached => log[i].attach.message # "")

(***************************************************************************)
(* Claims about the single-node resolver.                                  *)
(***************************************************************************)
\* the element the resolver was applied to
RefElement == NodeOfId(refArg)

\* the fibers from fiber upward along the return links, nearest first
RECURSIVE PathUp(_)
PathUp(fiber) == IF fiber = 0 THEN <<>> ELSE <<fiber>> \o PathUp(fibers[fiber].ret)

AuthoredFiber(fiber) == fibers[fiber].tag \in {0, 1, 11, 15}
AuthoredTypes == {"FunctionComponent", "ClassComponent", "ForwardRef",
                  "MemoComponent"}

\* the first MaxSteps fibers of the walk from element e hold no authored
\* component
BoundUsedUp(e) ==
    LET path == PathUp(FiberKey(e)) IN
    /\ Len(path) >= MaxSteps
    /\ \A i \in 1..MaxSteps : ~AuthoredFiber(path[i])

\* C8: when the upward walk uses up its 20 steps without meeting an
\* authored component the resolver reports 'no component found', and
\* success=true comes only with an authored component.
C8_BoundReported ==
    (refArg # 0 /\ resolveResult.kind = "returned") =>
        /\ resolveResult.success => resolveResult.type \in AuthoredTypes
        /\ BoundUsedUp(RefElement) =>
              /\ ~resolveResult.success
              /\ resolveResult.error = "No React component found in fiber tree"

\* the authored ancestors of the component the resolver ends on, nearest
\* first, as owner entries
OwnersExpected(e) ==
    LET fiber == FindComponent(FiberKey(e), MaxSteps)
        above == SelectSeq(PathUp(fibers[fiber].ret), AuthoredFiber)
    IN  [i \in 1..Len(above) |->
            [name |-> GetComponentName(fibers[above[i]]),
             type |-> GetComponentType(fibers[above[i]].tag),
             source |-> ResolverExtractSource(fibers[above[i]].props)]]

C5_MutualExclusion ==
    /\ \A r1, r2 \in Requests : (Holding(r1) /\ Holding(r2)) => r1 = r2
    /\ \A i, j, k \in 1..Len(trace) :
          (i < j /\ j < k /\ trace[i] = trace[k]) => trace[j] = trace[i]

\* C5 witness: all requests were waiting at once and two of them have run
\* their handlers to the end, one after the other
C5_Witness ==
    /\ lock = NumRequests
    /\ Len(trace) >= 2 * HandlerSteps
    /\ \E r1, r2 \in Requests :
          /\ r1 # r2
          /\ req[r1].at = "done" /\ req[r1].step = HandlerSteps
          /\ req[r2].at = "done" /\ req[r2].step = HandlerSteps
          /\ req[r1].ticket > req[r2].ticket
          /\ trace[1] = r2

(***************************************************************************)
(* Claims about the single-node resolver as a tool.                        *)
(***************************************************************************)
\* the last tool invocation that has finished
Last == log[Len(log)]

\* the invocation that has just finished is a resolver call on a reference
\* that the last snapshot shows
ResolvedSnapshotRef ==
    /\ tool = "none" /\ Len(log) >= 1
    /\ Last.tool = "get_react_component_from_backend_node_id"
    /\ snapshot.kind = "snapshot"
    /\ refArg \in IdsOf(snapshot.root)

\* a take_snapshot that returned a snapshot was followed at once, on the
\* same document and with the hook attached, by that resolver call
SnapshotThenResolve ==
    /\ ResolvedSnapshotRef
    /\ Len(log) >= 2
    /\ log[Len(log) - 1].tool = "take_snapshot"
    /\ ~log[Len(log) - 1].threw
    /\ snapshot.gen = gen
    /\ backendInjected /\ HasRenderers

\* C6: on a page with an attached hook, a take_snapshot followed at once by
\* get_react_component_from_backend_node_id on a reference of that snapshot
\* ends with a component or with success=false and an error; no exception
\* leaves the tool handler.
C6_NoExceptionLeaves ==
    SnapshotThenResolve =>
        /\ ~Last.threw
        /\ resolveResult.kind = "returned"
        /\ (resolveResult.success \/ resolveResult.error # "")

\* C7: a resolver call on a reference from a snapshot taken before a reload
\* of the page ends with success=false and an error; it never returns a
\* component.
C7_StaleRefFails ==
    (ResolvedSnapshotRef /\ snapshot.gen < startGen) =>
        /\ ~Last.threw
        /\ resolveResult.kind = "returned"
        /\ ~resolveResult.success
        /\ resolveResult.error # ""

(***************************************************************************)
(* Claims about getComponentMap.                                           *)
(***************************************************************************)
\* lines.join of no line, or of one empty line, is the empty string
JoinEmpty(lines) ==
    \/ Len(lines) = 0
    \/ /\ Len(lines) = 1
       /\ lines[1].prefix = <<>> /\ lines[1].segments = <<>>

\* a getComponentMap call has just returned
MapReturned ==
    /\ tool = "none" /\ Len(log) >= 1
    /\ Last.tool = "get_component_map"
    /\ ~Last.threw

\* C10: what getComponentMap returns is a non-empty text, the rendered tree
\* or a string starting with 'Error: '; it is never null and never empty.
C10_NonEmptyText ==
    MapReturned =>
        /\ mapResult.kind = "text"
        /\ (mapResult.error # "" \/ ~JoinEmpty(mapResult.lines))

\* C11: when no renderer has registered on the page (the page ships no
\* React), the text getComponentMap returns carries the indication 'React
\* DevTools hook not found or no renderers'.
C11_NoRenderersText ==
    (MapReturned /\ mapResult.kind = "text" /\ ~reactPresent) =>
        mapResult.error = "React DevTools hook not found or no renderers"

(***************************************************************************)
(* safeSerialize as a function of the objects: the specification           *)
(* SpecSerialize draws the objects of the page, which may refer to         *)
(* themselves and to one another in any way, and serialises the first.     *)
(*                                                                         *)
(* Every object has two entries, a and b (the items 0 and 1 of an array),  *)
(* each a number or a reference to an object; an object that is not an     *)
(* array has a third entry whose key starts with __react and that refers   *)
(* to the first object. The first object is a plain object, as props are.  *)
(***************************************************************************)
HeapValues(n) == {Prim("1")} \cup {Ref(j) : j \in 1..n}

HeapObject(kind, a, b) ==
    [kind |-> kind,
     entries |-> IF kind = "array"
                 THEN <<[key |-> "0", value |-> a], [key |-> "1", value |-> b]>>
                 ELSE <<[key |-> "a", value |-> a], [key |-> "b", value |-> b],
                        [key |-> "__reactInternals", value |-> Ref(1)]>>]

Heaps(n) ==
    {h \in [1..n -> {HeapObject(kind, a, b) :
                       kind \in {"object", "array", "element"},
                       a \in HeapValues(n), b \in HeapValues(n)}] :
        h[1].kind = "object"}

InitSerialize ==
    /\ AttachedPage
    /\ fibers = PathFibers(1, 1, 0)
    /\ dom = PathDom(1)
    /\ ax = PathAx(1, FALSE)
    /\ marks = [e \in 1..2 |-> NoMark]
    /\ \E n \in 1..MaxHeap : heap \in Heaps(n)
    /\ hookObj = NoHookObj
    /\ InitTools
    /\ InitMutex

NextSerialize == \E call \in SerializeCalls : Serialize(call)

SpecSerialize == InitSerialize /\ [][NextSerialize]_vars

(***************************************************************************)
(* getComponentMap called again and again on an attached page that does    *)
(* not change in between.                                                  *)
(***************************************************************************)
InitRepeat ==
    /\ AttachedPage
    /\ InitTree
    /\ InitTools
    /\ InitMutex

NextRepeat ==
    \/ \E v, s \in BOOLEAN : StartMap(v, s, MaxRepeatCalls)
    \/ \E ok \in BOOLEAN : AxEnable(ok)
    \/ \E ok \in BOOLEAN : MapSnapshot(ok)
    \/ \E ok \in BOOLEAN : TagEntry(ok)
    \/ \E ok \in BOOLEAN : Walk(ok)

SpecRepeat == InitRepeat /\ [][NextRepeat]_vars

(***************************************************************************)
(* The lines of the component map.                                         *)
(***************************************************************************)
\* the lines a getComponentMap call that has just returned a tree shows
MapLines ==
    IF MapReturned /\ mapResult.kind = "text" /\ mapResult.error = ""
    THEN mapResult.lines ELSE <<>>

\* the indices of the lines pushed for authored components
ComponentLines == {i \in 1..Len(MapLines) : MapLines[i].of.kind = "component"}

\* the fibers of the subtree of f in first-child-then-sibling pre-order
RECURSIVE PreOrder(_)
RECURSIVE PreOrderChain(_)
PreOrder(f) == <<f>> \o PreOrderChain(fibers[f].child)
PreOrderChain(child) ==
    IF child = 0 THEN <<>>
    ELSE PreOrder(child) \o PreOrderChain(fibers[child].sibling)

\* the first host element below f in that order, 0 when there is none
FirstHost(f) ==
    LET below == SelectSeq(Tail(PreOrder(f)), LAMBDA g : fibers[g].tag = 5)
    IN  IF below = <<>> THEN 0 ELSE below[1]

\* C12: the element whose markers annotate the line of an authored
\* component is the first host element of the component's subtree in
\* first-child-then-sibling pre-order; no later host element is ever used.
C12_FirstHostAnnotates ==
    \A i \in ComponentLines :
        MapLines[i].of.id # 0 =>
            /\ FirstHost(MapLines[i].of.fiber) # 0
            /\ MapLines[i].of.id =
                   BackendId(gen, fibers[FirstHost(MapLines[i].of.fiber)].elem)

\* the bracketed annotations of a line
Annotations(line) ==
    {k \in 1..Len(line.segments) : line.segments[k][1] = "aria"}

\* the host fibers below f whose element carries markers
MarkedHostsBelow(f) ==
    {g \in Fibers : /\ g # f /\ fibers[g].tag = 5 /\ fibers[g].elem # 0
                    /\ marks[fibers[g].elem].tagged
                    /\ \E k \in 1..Len(PreOrder(f)) : PreOrder(f)[k] = g}

\* C13: the line of an authored component carries at most one bracketed
\* annotation, whatever the tree and whichever elements are tagged.
C13_AtMostOneAnnotation ==
    \A i \in ComponentLines : Cardinality(Annotations(MapLines[i])) <= 1

\* a component with two marked host elements below it is shown with one
\* annotation
C13_Witness ==
    \E i \in ComponentLines :
        /\ Cardinality(MarkedHostsBelow(MapLines[i].of.fiber)) >= 2
        /\ Cardinality(Annotations(MapLines[i])) = 1

\* the indices of the accessibility-only leaf lines
LeafLines == {i \in 1..Len(MapLines) : MapLines[i].of.kind = "a11y"}

\* C14: no backend reference is shown both as an accessibility-only leaf
\* and as the annotation of the line of an authored component.
C14_LeafNotClaimed ==
    \A i \in LeafLines, j \in ComponentLines :
        MapLines[i].of.id # MapLines[j].of.id

\* the indices of the lines pushed for host elements
HostLines == {i \in 1..Len(MapLines) : MapLines[i].of.kind = "host"}

\* C15: a host element has a line of its own only if its markers carry a
\* semantic role and no authored component shown before it has claimed its
\* backend reference.
C15_HostLineUnclaimed ==
    \A i \in HostLines :
        /\ IsSemanticOrInteractive(marks[fibers[MapLines[i].of.fiber].elem].role)
        /\ \A j \in ComponentLines :
              j < i => MapLines[j].of.id # MapLines[i].of.id

\* the indices of the lines pushed for fibers
FiberLines == ComponentLines \cup HostLines

\* the fibers of all the roots in pre-order, root after root in the order
\* the roots were committed
RECURSIVE PreOrderOfRoots(_, _)
PreOrderOfRoots(roots, k) ==
    IF k > Len(roots) THEN <<>>
    ELSE PreOrder(roots[k]) \o PreOrderOfRoots(roots, k + 1)

\* where fiber f stands in an order
Position(order, f) == CHOOSE k \in 1..Len(order) : order[k] = f

\* line i is an accessibility-only leaf of the component of line c: it
\* stands in the run of leaves that follows line c, and its node is an
\* accessibility child of the element of that component
LeafOf(i, c) ==
    /\ c < i
    /\ \A k \in (c + 1)..i : k \in LeafLines
    /\ \E k \in 1..Len(A11yChildren(MapLines[c].of.id)) :
          A11yChildren(MapLines[c].of.id)[k] = MapLines[i].of.id

\* C16: the lines of the fibers are in first-child-then-sibling pre-order,
\* root after root in the order the roots were committed, and the
\* accessibility-only leaves of a component follow its line directly,
\* before the line of any of its descendants.
C16_PreOrderLines ==
    /\ LET order == PreOrderOfRoots(RootFibers, 1) IN
          \A i, j \in FiberLines :
              i < j => Position(order, MapLines[i].of.fiber)
                          < Position(order, MapLines[j].of.fiber)
    /\ \A i \in LeafLines : \E c \in ComponentLines : LeafOf(i, c)

\* the root fiber above fiber f
RECURSIVE RootAbove(_)
RootAbove(f) == IF fibers[f].ret = 0 THEN f ELSE RootAbove(fibers[f].ret)

\* a component is shown with a leaf and then a descendant, and the lines
\* of a second root follow
C16_Witness ==
    \E c \in ComponentLines, l \in LeafLines, d, e \in FiberLines :
        /\ LeafOf(l, c) /\ l < d /\ d < e
        /\ MapLines[c].of.fiber \in UpSet([f \in Fibers |-> fibers[f].ret],
                                          fibers[MapLines[d].of.fiber].ret)
        /\ RootAbove(MapLines[e].of.fiber) # RootAbove(MapLines[d].of.fiber)

\* the line pushed for fiber g, 0 when it has none
LineOfFiber(g) ==
    IF \E i \in FiberLines : MapLines[i].of.fiber = g
    THEN CHOOSE i \in FiberLines : MapLines[i].of.fiber = g
    ELSE 0

\* the line of the nearest fiber above f that has one, 0 when none has
RECURSIVE LineAbove(_)
LineAbove(f) ==
    IF fibers[f].ret = 0 THEN 0
    ELSE IF LineOfFiber(fibers[f].ret) # 0 THEN LineOfFiber(fibers[f].ret)
    ELSE LineAbove(fibers[f].ret)

\* the number of indentation units line i should have
DepthExpected(i) ==
    IF LineAbove(MapLines[i].of.fiber) = 0 THEN 0
    ELSE Len(MapLines[LineAbove(MapLines[i].of.fiber)].prefix) + 1

\* the segments of a line without the state, which is shown on request only
WithoutState(line) == SelectSeq(line.segments, LAMBDA seg : seg[1] # "state")

\* the component of line i has an element tagged with a role and a name,
\* and props that carry a file, a line and a column
TaggedAndLocated(i) ==
    LET f == MapLines[i].of.fiber
        e == NodeOfId(MapLines[i].of.id)
    IN  /\ MapLines[i].of.id # 0
        /\ marks[e].role # "" /\ marks[e].name # ""
        /\ PropValue(fibers[f].props, "data-inspector-relative-path") # ""
        /\ PropValue(fibers[f].props, "data-inspector-line") # ""
        /\ PropValue(fibers[f].props, "data-inspector-column") # ""

\* C18: a component whose element is tagged with role r and name n and
\* whose props carry the source location f:l:c has one line made of its
\* name, its props summary, [role="r" name="n"] and (f:l:c), in that order,
\* one level deeper than the nearest ancestor that has a line.
C18_LineFormat ==
    \A i \in ComponentLines :
        TaggedAndLocated(i) =>
            LET fiber == fibers[MapLines[i].of.fiber]
                mark == marks[NodeOfId(MapLines[i].of.id)]
            IN  /\ WithoutState(MapLines[i]) =
                      <<<<"name", WalkComponentName(fiber)>>>>
                      \o Seg("props", PropsSummary(fiber.props), <<>>)
                      \o <<<<"aria", <<<<"role", mark.role>>,
                                       <<"name", mark.name>>>>>>,
                          <<"source",
                            PropValue(fiber.props, "data-inspector-relative-path")
                            \o ":" \o PropValue(fiber.props, "data-inspector-line")
                            \o ":"
                            \o PropValue(fiber.props, "data-inspector-column")>>>>
                /\ Len(MapLines[i].prefix) = DepthExpected(i)
                /\ \A j \in ComponentLines :
                      MapLines[j].of.fiber = MapLines[i].of.fiber => j = i

\* calls i and i + 1 of getComponentMap both returned the tree, had the
\* same arguments and could resolve the same nodes
SamePageSameCall(i) ==
    /\ mapHist[i].result.kind = "text" /\ mapHist[i].result.error = ""
    /\ mapHist[i + 1].result.kind = "text" /\ mapHist[i + 1].result.error = ""
    /\ mapHist[i].args = mapHist[i + 1].args
    /\ mapHist[i].tagged = mapHist[i + 1].tagged

\* C17: on a page that stays as it is, two getComponentMap calls in a row
\* that can resolve the same elements return the same lines in the same
\* order.
C17_SameLinesAgain ==
    \A i \in 1..(Len(mapHist) - 1) :
        SamePageSameCall(i) => mapHist[i].result = mapHist[i + 1].result

\* two calls in a row have tagged the same elements and have shown the
\* same annotated component line
C17_Witness ==
    \E i \in 1..(Len(mapHist) - 1) :
        /\ SamePageSameCall(i)
        /\ mapHist[i].tagged # {}
        /\ mapHist[i].result = mapHist[i + 1].result
        /\ \E k \in 1..Len(mapHist[i + 1].result.lines) :
              /\ mapHist[i + 1].result.lines[k].of.kind = "component"
              /\ mapHist[i + 1].result.lines[k].of.id # 0

(***************************************************************************)
(* The serialisation of objects that refer to themselves.                  *)
(***************************************************************************)
\* the objects a result shows the entries of, in the order of the result
RECURSIVE Expanded(_)
RECURSIVE ExpandedEach(_, _)
Expanded(out) ==
    IF out.kind \in {"object", "array"}
    THEN <<out.of>> \o ExpandedEach(out.entries, 1)
    ELSE <<>>
ExpandedEach(entries, k) ==
    IF k > Len(entries) THEN <<>>
    ELSE Expanded(entries[k].value) \o ExpandedEach(entries, k + 1)

\* the value the object i holds under a key
HeapEntry(i, key) ==
    heap[i].entries[CHOOSE k \in 1..Len(heap[i].entries) :
                        heap[i].entries[k].key = key].value

\* wherever an object of the result refers to itself or to an object it is
\* inside of (one of above), the result has the placeholder
RECURSIVE Placeholders(_, _)
Placeholders(out, above) ==
    out.kind \in {"object", "array"} =>
        \A k \in 1..Len(out.entries) :
            LET held == HeapEntry(out.of, out.entries[k].key) IN
            /\ (held.t = "ref" /\ held.v \in above \cup {out.of}) =>
                   out.entries[k].value =
                       [kind |-> "text", v |-> "[Circular]", of |-> held.v]
            /\ Placeholders(out.entries[k].value, above \cup {out.of})

\* how deep the result is
RECURSIVE Depth(_)
RECURSIVE DepthEach(_, _)
Depth(out) ==
    IF out.kind \in {"object", "array"} THEN 1 + DepthEach(out.entries, 1) ELSE 0
DepthEach(entries, k) ==
    IF k > Len(entries) THEN 0
    ELSE LET d == Depth(entries[k].value)
             rest == DepthEach(entries, k + 1)
         IN  IF d > rest THEN d ELSE rest

\* C19: serialising an object that refers to itself, directly or through
\* nested objects or arrays, ends with a result that is no deeper than the
\* depth asked for, shows the entries of no object twice and has the
\* placeholder in place of every reference back.
C19_CyclesSerialised ==
    serialized.kind = "returned" =>
        /\ Depth(serialized.out) <= serialized.call.maxDepth
        /\ \A j, k \in 1..Len(Expanded(serialized.out)) :
              Expanded(serialized.out)[j] = Expanded(serialized.out)[k] => j = k
        /\ Placeholders(serialized.out, {})

\* the first object holds an object or an array that holds the first
\* object, and the result has the placeholder there
C19_Witness ==
    /\ serialized.kind = "returned"
    /\ \E j \in 1..Len(serialized.out.entries) :
          LET inner == serialized.out.entries[j].value IN
          /\ inner.kind \in {"object", "array"}
          /\ \E k \in 1..Len(inner.entries) :
                inner.entries[k].value =
                    [kind |-> "text", v |-> "[Circular]", of |-> 1]


(***************************************************************************)
(* C20: the two resolvers agree on one element.                            *)
(***************************************************************************)
\* both tools have answered for the same element: the accessibility tree
\* has a node of role R and name N for it that a snapshot lists, the ARIA
\* selector for (R, N) found it, and the backend id passed was its id
SameElementResolved ==
    /\ ariaResult.kind = "returned"
    /\ resolveResult.kind = "returned"
    /\ ariaResult.element >= 1
    /\ refArg = BackendId(gen, ariaResult.element)
    /\ \E i \in DOMAIN ax : /\ ax[i].node = ariaResult.element
                            /\ ~ax[i].ignored
                            /\ ax[i].role = ariaResult.role
                            /\ ax[i].name = ariaResult.name

OwnerNames(owners) == [i \in 1..Len(owners) |-> owners[i].name]

\* C20: for an element the snapshot lists with role R, name N and backend
\* id B and that the ARIA selector for (R, N) resolves to, the resolver by
\* role and name called with (R, N) and the resolver by backend id called
\* with B return the same component name, the same type, the same source
\* location and the same owners: same count, same names in the same order
C20_ResolversAgree ==
    SameElementResolved =>
        /\ ariaResult.result.success = resolveResult.success
        /\ ariaResult.result.name = resolveResult.name
        /\ ariaResult.result.type = resolveResult.type
        /\ ariaResult.result.source = resolveResult.source
        /\ Len(ariaResult.result.owners) = Len(resolveResult.owners)
        /\ OwnerNames(ariaResult.result.owners)
               = OwnerNames(resolveResult.owners)
        /\ ariaResult.result.owners = resolveResult.owners

\* C20 witness: both tools answered for the button, whose component has a
\* source location and as many owners as the owners list can hold, not all
\* of them with a source location
C20_Witness ==
    /\ SameElementResolved
    /\ ariaResult.role = "button" /\ ariaResult.name = "Sign up"
    /\ ariaResult.result.success
    /\ ariaResult.result.source # <<>>
    /\ Len(ariaResult.result.owners) = MaxOwners
    /\ \E i, j \in 1..MaxOwners :
          /\ ariaResult.result.owners[i].source # <<>>
          /\ ariaResult.result.owners[j].source = <<>>


(***************************************************************************)
(* C21: the walk on fiber graphs with cycles.                              *)
(***************************************************************************)
\* C21: the component walk terminates for every finite fiber graph, also
\* when child or sibling links form a cycle or a fiber is reachable along
\* two paths; a run that the engine ends with a RangeError counts as ended
C21_WalkTerminates == <>(walkRun.pc \in {"done", "threw"})

(***************************************************************************)
(* C22: the upward loops of the resolver on return links with cycles.      *)
(***************************************************************************)
\* C22: both upward loops of the single-node resolver stop within a fixed
\* number of steps for every fiber graph, also one whose return links form
\* a cycle: the search for the nearest authored component and the
\* collection of the owners list both come to their end
C22_ClimbsTerminate == <>(climbRun.pc = "done")

(***************************************************************************)
(* C23: ignored nodes and the maps.                                        *)
(***************************************************************************)
\* the nodes the platform flags as ignored, by name (every node of a tree
\* of SpecSnap has a name of its own) and by backend id
IgnoredNodes == {i \in DOMAIN ax : ax[i].ignored}
IgnoredNames == {ax[i].name : i \in IgnoredNodes}
IgnoredIds == {AxBackendId(i) : i \in IgnoredNodes} \ {0}

\* the names of the nodes of a snapshot tree
RECURSIVE NamesOf(_)
NamesOf(nodes) ==
    IF nodes = <<>> THEN {}
    ELSE {nodes[1].name} \cup NamesOf(nodes[1].children)
         \cup NamesOf(Tail(nodes))

\* C23: with verbose=false no node that the platform flags as ignored is
\* in the snapshot tree, and no such node gives a key or a child entry to
\* the map of backend ids or to the hierarchy built from that snapshot
C23_IgnoredLeftOut ==
    ~verbose =>
        /\ NamesOf(snapshot.root) \cap IgnoredNames = {}
        /\ \A k \in 1..Len(axEntries.map) :
              /\ axEntries.map[k].name \notin IgnoredNames
              /\ axEntries.map[k].id \notin IgnoredIds
        /\ \A k \in 1..Len(axEntries.hierarchy) :
              /\ axEntries.hierarchy[k].id \notin IgnoredIds
              /\ \A c \in 1..Len(axEntries.hierarchy[k].childIds) :
                    axEntries.hierarchy[k].childIds[c] \notin IgnoredIds

\* C23 witness: the maps were built with verbose=false from a tree in
\* which a node with a backend id is ignored and has a sibling that is not
C23_Witness ==
    /\ ~verbose
    /\ Len(axEntries.map) >= 2
    /\ axEntries.hierarchy # <<>>
    /\ \E i, j \in 2..Len(ax) :
          /\ ax[i].ignored /\ AxBackendId(i) # 0
          /\ ~ax[j].ignored /\ AxBackendId(j) # 0
          /\ \E q \in DOMAIN ax : {i, j} \subseteq
                                     {ax[q].childIds[c] : c \in DOMAIN ax[q].childIds}

(***************************************************************************)
(* C30: the subtree of an ignored node.                                    *)
(***************************************************************************)
\* the node that lists node i among its children, 0 for the root
AxParent(i) ==
    LET above == {q \in DOMAIN ax :
                     \E c \in DOMAIN ax[q].childIds : ax[q].childIds[c] = i}
    IN  IF above = {} THEN 0 ELSE CHOOSE q \in above : TRUE

\* neither node i nor any node on its path from the root is ignored
RECURSIVE PathKept(_)
PathKept(i) ==
    IF i = 0 THEN TRUE ELSE ~ax[i].ignored /\ PathKept(AxParent(i))

\* C30: with verbose=false a node is in the snapshot tree only if neither
\* it nor any node on its path from the root is flagged ignored, so the
\* whole subtree of an ignored node is left out, and an ignored root gives
\* a result whose root is null
C30_SubtreeLeftOut ==
    (~verbose /\ snapshot.kind # "none") =>
        /\ snapshot.kind = "snapshot"
        /\ NamesOf(snapshot.root) \subseteq
               {ax[i].name : i \in {j \in DOMAIN ax : PathKept(j)}}
        /\ ax[1].ignored => snapshot.root = <<>>

\* C30 witness: a snapshot with verbose=false of a tree whose root is kept
\* and in which an ignored node has a child that is not ignored
C30_Witness ==
    /\ ~verbose /\ snapshot.kind = "snapshot"
    /\ snapshot.root # <<>>
    /\ \E i \in 2..Len(ax) :
          /\ ~ax[i].ignored
          /\ AxParent(i) >= 2
          /\ ax[AxParent(i)].ignored
          /\ PathKept(AxParent(AxParent(i)))

(***************************************************************************)
(* C24: failures in the tagging loop.                                      *)
(***************************************************************************)
\* the call of getComponentMap in progress
ThisCall == mapHist[Len(mapHist)]

\* whatever failed so far, every entry before the current one whose role
\* passes the filter has been attempted, once and in the order of the map;
\* at the walk these are all the entries that pass the filter
AllAttempted ==
    (tool = "get_component_map" /\ pc \in {"tag", "walk"}) =>
        /\ ThisCall.attempted = Attempts(axEntries.map, tagNext)
        /\ pc = "walk" => tagNext = Len(axEntries.map) + 1

\* C24: in the tagging loop a failure to resolve or to tag one entry is
\* skipped: every other entry whose role passes the filter is still
\* attempted in the same pass, the loop is followed by the walk, and no
\* step of the loop makes get_component_map fail
C24_FailuresSkipped ==
    /\ []AllAttempted
    /\ [][pc = "tag" => /\ pc' \in {"tag", "walk"}
                        /\ tool' = tool
                        /\ log' = log]_vars

\* C24 witness: the walk is reached after a pass in which an element was
\* not tagged and an entry after it was
C24_Witness ==
    /\ tool = "get_component_map" /\ pc = "walk"
    /\ \E j, k \in 1..Len(ThisCall.attempted) :
          /\ j < k
          /\ NodeOfId(ThisCall.attempted[j]) >= 1
          /\ ThisCall.attempted[j] \notin ThisCall.tagged
          /\ ThisCall.attempted[k] \in ThisCall.tagged

(***************************************************************************)
(* C25: the bootstrap patch on a hook that was there.                      *)
(***************************************************************************)
\* C25: when a registration hook exists already, installing the bootstrap
\* patch, once or repeatedly, keeps what was there: the inject and
\* onCommitFiberRoot handlers that were there are called on every later
\* call, each renderer gets one id, and the renderers and fiber roots the
\* hook knew before the patch are still returned by hook.renderers and
\* hook.getFiberRoots after it
C25_PatchKeeps ==
    hookObj.kind = "hook" /\ hookObj.patches >= 1 =>
        /\ hookObj.last.call = "inject" /\ hookObj.injectBase
              => hookObj.last.base
        /\ hookObj.last.call = "commit" /\ hookObj.onCommitBase
              => hookObj.last.base
        /\ \A renderer \in hookObj.injected :
              Cardinality({pair \in hookObj.renderers : pair[2] = renderer}) <= 1
        /\ \A p, q \in hookObj.renderers : p[1] = q[1] => p = q
        /\ hookObj.known.renderers \subseteq hookObj.renderers
        /\ \A id \in RendererIds :
              hookObj.known.roots[id] \subseteq GetFiberRootsOf(hookObj, id)

(***************************************************************************)
(* C26: what getComponentMap writes to the page.                           *)
(***************************************************************************)
\* a step of the server: the invocation moves on (the page's own steps leave
\* the session as it is)
ServerStep == <<pc, tool, steps, mapHist>>' # <<pc, tool, steps, mapHist>>

\* the document, the hook, the component instances and the elements
PageState == <<gen, hook, renderers, fiberRoots, reactLoaded, rendered,
               painted, fibers, dom, heap, hookObj>>

\* every element whose markers change gets the three markers of the entry
\* of this call's map that carries the element's backend node id
OnlyMarkers ==
    \A d \in DOMAIN marks :
        marks'[d] # marks[d] =>
            \E k \in 1..Len(axEntries.map) :
                LET entry == axEntries.map[k]
                IN  /\ entry.id = BackendId(gen, d)
                    /\ marks'[d] = [tagged |-> TRUE, role |-> entry.role,
                                    name |-> entry.name,
                                    backendId |-> entry.id]

\* C26 as stated: during get_component_map the only writes to page state
\* are the three markers set on resolved elements: the DOM structure and
\* every field of every component instance are unchanged by every step of
\* the invocation
C26_OnlyMarkersWritten ==
    [][tool = "get_component_map" /\ ServerStep =>
           /\ PageState' = PageState
           /\ DOMAIN marks' = DOMAIN marks
           /\ OnlyMarkers]_vars

\* C26 amended: once ensureBackendInjected has returned, the only writes of
\* get_component_map to page state are the three markers set on resolved
\* elements: the snapshot, the tagging pass and the walk leave the DOM
\* structure and every field of every component instance unchanged
C26_OnlyMarkersAfterInjection ==
    [][/\ tool = "get_component_map"
       /\ pc \in {"axEnable", "getFullAXTree", "tag", "walk"}
       /\ ServerStep
       => /\ PageState' = PageState
          /\ DOMAIN marks' = DOMAIN marks
          /\ OnlyMarkers]_vars

\* C26 witness: a getComponentMap call has returned its lines after its
\* tagging pass set the markers of an element
C26_Witness ==
    /\ tool = "none" /\ Len(mapHist) >= 1
    /\ ThisCall.result.kind = "text" /\ ThisCall.result.error = ""
    /\ \E d \in DOMAIN marks :
          /\ marks[d].tagged
          /\ marks[d].backendId \in ThisCall.tagged

(***************************************************************************)
(* C27: an accessibility-only element and the components around it.        *)
(***************************************************************************)
\* C27: when several authored components are associated with the same
\* element or with overlapping accessibility subtrees, the first one in walk
\* order wins: each accessibility-only element is the subject of at most
\* one leaf line in the whole output of get_component_map
C27_LeafOnce ==
    \A i, j \in LeafLines :
        MapLines[i].of.id = MapLines[j].of.id => i = j

(***************************************************************************)
(* C28: the markers an earlier call has left.                              *)
(***************************************************************************)
\* the lines of fibers in the output of the call that has just returned
AnnotatedLines ==
    {i \in 1..Len(MapLines) : /\ MapLines[i].of.kind \in {"component", "host"}
                              /\ Annotations(MapLines[i]) # {}}

\* C28: over any sequence of get_component_map calls on a page, the role
\* and name shown in an annotation of a call's output are the ones recorded
\* for that element in the accessibility snapshot taken by that same call:
\* markers left on an element by an earlier call never decide what a later
\* call prints
C28_OwnSnapshot ==
    \A i \in AnnotatedLines : \A k \in Annotations(MapLines[i]) :
        /\ AxInfo(MapLines[i].of.id) # <<>>
        /\ MapLines[i].segments[k][2] =
              AriaParts(AxInfo(MapLines[i].of.id)[1].role,
                        AxInfo(MapLines[i].of.id)[1].name)

(***************************************************************************)
(* C29: the mutex is released on every exit of the handler.                *)
(***************************************************************************)
\* the invocation has ended without running its handler to the end: context
\* creation failed, or an await of the handler threw
Failed(r) == req[r].at = "done" /\ req[r].step < HandlerSteps

\* C29: every tool invocation that has acquired the mutex releases it when
\* its handler ends, whether the handler returns, throws or context
\* creation fails, and holds it until then; so if every handler terminates
\* each waiting invocation is eventually admitted, whichever calls before
\* it have failed
C29_ReleasedOnEveryExit ==
    /\ [](\A r \in Requests :
            /\ req[r].at = "done" => req[r].ticket \in released
            /\ Holding(r) => req[r].ticket \notin released)
    /\ \A r \in Requests : (req[r].at = "waiting") ~> Holding(r)

\* C29 witness: the first invocation failed to create its context, the
\* second threw in its handler, and the third, which waited behind both,
\* holds the mutex
C29_Witness ==
    \E r1, r2, r3 \in Requests :
        /\ req[r1].ticket = 1 /\ req[r2].ticket = 2 /\ req[r3].ticket = 3
        /\ req[r3].previous = 2
        /\ Failed(r1) /\ req[r1].step = 0
        /\ Failed(r2) /\ req[r2].step = 1
        /\ Holding(r3)
=========================================================================
